---------------------------- MODULE Spec2Model ----------------------------
(***************************************************************************)
(* Ledger accounting and position tracking of cashio-api.                  *)
(*                                                                         *)
(* The persisted state is the content of the tables of                     *)
(* app/models/model.py.  Every action is one request handler; a handler    *)
(* is a sequence of commits (db.commit) and the state after the action is  *)
(* what the last commit it reached has written: work done after the last   *)
(* commit and before an exception is lost with the session, work committed *)
(* before the exception stays.                                             *)
(*                                                                         *)
(* Numbers are fixed-point, as the NUMERIC columns store them: money is a  *)
(* whole number of cents (Numeric(15,2)), fund and asset quantities are    *)
(* whole units, and the Numeric(15,4) columns of a mutual fund (average    *)
(* cost, realized gain, invested cash) are whole numbers of 1/100 cent.    *)
(* Request values are taken at the precision of the column that receives   *)
(* them.  A quotient is stored rounded to the scale of its column, half    *)
(* away from zero (RoundDiv); Decimal arithmetic in memory, and the trip   *)
(* of a Decimal through float, are taken as exact.  A request carries the  *)
(* fields its handler reads.                                               *)
(***************************************************************************)
EXTENDS Integers, Sequences, FiniteSets, TLC

---------------------------------------------------------------------------
(* Bounds of the model *)

MaxTxId == 2
MaxAmount == 2
MaxBalance == 3

---------------------------------------------------------------------------
(* The cast: users and their ledgers (rows of users and ledgers) *)

Users == {1, 2}
Ledgers == {1, 2, 3}
LedgerUser(l) == IF l = 3 THEN 2 ELSE 1

None == 0

(* An optional request field: Absent (None, or not sent) or Some(v) *)
Absent == <<>>
Some(v) == <<v>>

---------------------------------------------------------------------------
(* Generic helpers *)

RECURSIVE SeqSum(_)
SeqSum(s) == IF s = <<>> THEN 0 ELSE Head(s) + SeqSum(Tail(s))

Range(s) == {s[i] : i \in DOMAIN s}

(* The sequences that list the elements of S once each *)
Orderings(S) == {s \in [1..Cardinality(S) -> S] : Range(s) = S}

HasDuplicates(s) == \E i, j \in DOMAIN s : i # j /\ s[i] = s[j]

Put(f, k, v) == [x \in (DOMAIN f) \cup {k} |-> IF x = k THEN v ELSE f[x]]

Drop(f, ks) == [x \in (DOMAIN f) \ ks |-> f[x]]

Abs(x) == IF x < 0 THEN -x ELSE x

(* n / d as a NUMERIC column stores it: rounded to the nearest unit of the *)
(* column's last digit, a tie away from zero (d > 0)                       *)
RoundDiv(n, d) ==
  IF n >= 0 THEN (2 * n + d) \div (2 * d) ELSE -((2 * (-n) + d) \div (2 * d))

(* Units of a Numeric(15,4) column in one unit of a Numeric(15,2) column *)
Fine == 100

(* Exact quotients held in memory: <<numerator, denominator>>, denominator > 0 *)
Frac(n) == <<n, 1>>
FracAdd(a, b) == <<a[1] * b[2] + b[1] * a[2], a[2] * b[2]>>
FracSub(a, b) == <<a[1] * b[2] - b[1] * a[2], a[2] * b[2]>>
FracTimes(k, a) == <<k * a[1], a[2]>>
FracOver(a, k) == <<a[1], a[2] * k>>
Stored(a) == RoundDiv(a[1], a[2])

---------------------------------------------------------------------------
VARIABLES
  accounts,      \* accounts table: account_id -> row
  transactions,  \* transactions table: transaction_id -> row (with its splits and tags)
  tags,          \* tags table: set of <<user_id, name>>
  nextTxId,      \* next value of the transactions primary key
  funds,         \* mutual_funds table: mutual_fund_id -> row
  mfTransactions,    \* mf_transactions table: mf_transaction_id -> row
  nextMfId,      \* next value of the mf_transactions primary key
  assets,        \* physical_assets table: physical_asset_id -> row
  assetTransactions, \* asset_transactions table: asset_transaction_id -> row
  nextAssetTxId, \* next value of the asset_transactions primary key
  last,          \* the last request: operation, outcome, and what it was about
  sessions       \* requests in progress: session -> position and what it has loaded

vars == <<accounts, transactions, tags, nextTxId, funds, mfTransactions, nextMfId,
          assets, assetTransactions, nextAssetTxId, last, sessions>>

(* The database as one value, so that repository functions compose *)
DB == [accounts |-> accounts, transactions |-> transactions, tags |-> tags,
       nextTxId |-> nextTxId, funds |-> funds, mfTransactions |-> mfTransactions,
       nextMfId |-> nextMfId, assets |-> assets,
       assetTransactions |-> assetTransactions, nextAssetTxId |-> nextAssetTxId]

Ok(db, id) == [db |-> db, err |-> "", id |-> id]
Fail(db, err) == [db |-> db, err |-> err, id |-> None]

Commit(r) ==
  /\ accounts' = r.db.accounts
  /\ transactions' = r.db.transactions
  /\ tags' = r.db.tags
  /\ nextTxId' = r.db.nextTxId
  /\ funds' = r.db.funds
  /\ mfTransactions' = r.db.mfTransactions
  /\ nextMfId' = r.db.nextMfId
  /\ assets' = r.db.assets
  /\ assetTransactions' = r.db.assetTransactions
  /\ nextAssetTxId' = r.db.nextAssetTxId

Last(op, r, info) == [op |-> op, ok |-> (r.err = ""), err |-> r.err, id |-> r.id, info |-> info]

NoInfo == [none |-> TRUE]

(* No request is in progress: every session is idle *)
Sessions == {1, 2}
Idle == [pc |-> "idle"]
NoSessions == [s \in Sessions |-> Idle]

---------------------------------------------------------------------------
(* Accounts *)

AccountRow(ledger_id, name, type, is_group, opening, parent) ==
  [ledger_id |-> ledger_id, name |-> name, type |-> type, is_group |-> is_group,
   opening_balance |-> opening, balance |-> 0, net_balance |-> opening,
   parent_account_id |-> parent]

(* account_crud.create_account; opening = None is stored as the column default 0 *)
create_account(db, ledger_id, name, type, is_group, opening, parent) ==
  IF \E a \in DOMAIN db.accounts :
        db.accounts[a].ledger_id = ledger_id /\ db.accounts[a].name = name
  THEN Fail(db, "account_exists")
  ELSE IF parent # None /\
          ~(parent \in DOMAIN db.accounts /\ db.accounts[parent].ledger_id = ledger_id
            /\ db.accounts[parent].is_group)
  THEN Fail(db, "invalid_parent")
  ELSE LET id == Cardinality(DOMAIN db.accounts) + 1
           ob == IF opening = Absent THEN 0 ELSE opening[1]
       IN Ok([db EXCEPT !.accounts = Put(@, id, AccountRow(ledger_id, name, type, is_group, ob, parent))], id)

(* update_account that stores the opening balance and leaves net_balance *)
update_account_keep_net(db, account_id, opening, parent) ==
  IF account_id \notin DOMAIN db.accounts THEN Fail(db, "account_not_found")
  ELSE IF parent # None /\ parent \notin DOMAIN db.accounts THEN Fail(db, "parent_not_found")
  ELSE IF parent # None /\ ~db.accounts[parent].is_group THEN Fail(db, "parent_not_group")
  ELSE LET a == db.accounts[account_id]
           a1 == IF opening = Absent THEN a ELSE [a EXCEPT !.opening_balance = opening[1]]
           a2 == IF parent = None THEN a1 ELSE [a1 EXCEPT !.parent_account_id = parent]
       IN Ok([db EXCEPT !.accounts[account_id] = a2], account_id)

(* account_crud.update_account *)
update_account(db, account_id, opening, parent) ==
  IF account_id \notin DOMAIN db.accounts THEN Fail(db, "account_not_found")
  ELSE IF parent # None /\ parent \notin DOMAIN db.accounts THEN Fail(db, "parent_not_found")
  ELSE IF parent # None /\ ~db.accounts[parent].is_group THEN Fail(db, "parent_not_group")
  ELSE LET a == db.accounts[account_id]
           a1 == IF opening = Absent THEN a
                 ELSE [a EXCEPT !.opening_balance = opening[1],
                                !.net_balance = opening[1] + a.balance]
           a2 == IF parent = None THEN a1 ELSE [a1 EXCEPT !.parent_account_id = parent]
       IN Ok([db EXCEPT !.accounts[account_id] = a2], account_id)


---------------------------------------------------------------------------
(* Transactions *)

TransactionRow(t) ==
  [account_id |-> t.account_id, credit |-> t.credit, debit |-> t.debit,
   is_split |-> t.is_split, is_transfer |-> t.is_transfer,
   is_asset_transaction |-> t.is_asset_transaction, is_mf_transaction |-> FALSE,
   transfer_id |-> t.transfer_id, transfer_type |-> t.transfer_type,
   splits |-> <<>>, tags |-> {}]

SplitCredits(splits) == SeqSum([i \in DOMAIN splits |-> splits[i].credit])
SplitDebits(splits) == SeqSum([i \in DOMAIN splits |-> splits[i].debit])

(* The balance change create_transaction applies: chosen by the account    *)
(* type and the request's type                                             *)
CreateEffect(account_type, type, credit, debit) ==
  IF account_type = "asset"
  THEN (IF type = "income" THEN credit ELSE -debit)
  ELSE (IF type = "income" THEN -credit ELSE debit)

SetBalance(db, account_id, balance) ==
  [db EXCEPT !.accounts[account_id].balance = balance,
             !.accounts[account_id].net_balance =
                 db.accounts[account_id].opening_balance + balance]

(* Find-or-create of the request's tags, one commit per created tag *)
WithTags(db, user_id, names) ==
  [db EXCEPT !.tags = @ \cup {<<user_id, n>> : n \in Range(names)}]

(* transaction_crud.create_transaction.  The row is committed, then the    *)
(* balance, then the splits are validated and committed, then the tags.    *)
create_transaction(db, t) ==
  IF t.account_id \notin DOMAIN db.accounts THEN Fail(db, "account_not_found")
  ELSE IF db.accounts[t.account_id].is_group THEN Fail(db, "group_account")
  ELSE
    LET account == db.accounts[t.account_id]
        id == db.nextTxId
        db1 == [db EXCEPT !.transactions = Put(@, id, TransactionRow(t)),
                          !.nextTxId = @ + 1]
        db2 == SetBalance(db1, t.account_id,
                   account.balance + CreateEffect(account.type, t.type, t.credit, t.debit))
        hasSplits == t.is_split /\ t.splits # <<>>
        db3 == IF hasSplits THEN [db2 EXCEPT !.transactions[id].splits = t.splits] ELSE db2
        db4 == WithTags(db3, LedgerUser(account.ledger_id), t.tags)
    IN IF hasSplits /\ t.type = "income" /\ SplitCredits(t.splits) # t.credit
       THEN [Fail(db2, "split_mismatch") EXCEPT !.id = id]
       ELSE IF hasSplits /\ t.type = "expense" /\ SplitDebits(t.splits) # t.debit
       THEN [Fail(db2, "split_mismatch") EXCEPT !.id = id]
       ELSE IF HasDuplicates(t.tags)
       THEN [Fail(db4, "duplicate_tag") EXCEPT !.id = id]
       ELSE Ok([db4 EXCEPT !.transactions[id].tags = Range(t.tags)], id)

(* update_account_balance with the reverse flag ignored *)
BalanceEffectForwardOnly(account_type, credit, debit, reverse) ==
  IF credit > 0 /\ debit = 0
  THEN (IF account_type = "asset" THEN credit ELSE -credit)
  ELSE (IF account_type = "asset" THEN -debit ELSE debit)

(* The balance change update_account_balance applies, decided by the       *)
(* stored credit and debit                                                 *)
BalanceEffect(account_type, credit, debit, reverse) ==
  LET forward == IF credit > 0 /\ debit = 0
                 THEN (IF account_type = "asset" THEN credit ELSE -credit)
                 ELSE (IF account_type = "asset" THEN -debit ELSE debit)
  IN IF reverse THEN -forward ELSE forward

ValidAmounts(credit, debit) ==
  (credit > 0 /\ debit = 0) \/ (debit > 0 /\ credit = 0)

(* transaction_crud.update_account_balance; it commits the session *)
update_account_balance(db, account_id, credit, debit, reverse) ==
  IF account_id \notin DOMAIN db.accounts THEN Fail(db, "account_not_found")
  ELSE IF ~ValidAmounts(credit, debit) THEN Fail(db, "invalid_transaction")
  ELSE Ok(SetBalance(db, account_id,
                     db.accounts[account_id].balance
                       + BalanceEffect(db.accounts[account_id].type, credit, debit, reverse)),
          None)


(* Foreign keys onto transactions.transaction_id: asset_transactions       *)
(* .financial_transaction_id, mf_transactions.financial_transaction_id and *)
(* .linked_charge_transaction_id                                           *)
ReferencedTransactions(db) ==
  {db.assetTransactions[x].financial_transaction_id : x \in DOMAIN db.assetTransactions}
  \cup {db.mfTransactions[x].financial_transaction_id : x \in DOMAIN db.mfTransactions}
  \cup {db.mfTransactions[x].linked_charge_transaction_id : x \in DOMAIN db.mfTransactions}

TransferRows(db, transfer_id) ==
  {x \in DOMAIN db.transactions : db.transactions[x].transfer_id = transfer_id}

(* The loop of delete_transaction over the rows of a transfer, in the      *)
(* order `order` the query returned them: each pass commits the reversal   *)
(* together with the deletion pending from the pass before                 *)
RECURSIVE ReverseAndDelete(_, _, _)
ReverseAndDelete(db, order, pending) ==
  IF order = <<>> THEN Ok(db, pending)
  ELSE LET trans == db.transactions[Head(order)]
           r == update_account_balance(db, trans.account_id, trans.credit, trans.debit, TRUE)
       IN IF r.err # "" THEN r
          ELSE IF pending # None /\ pending \in ReferencedTransactions(db)
          THEN Fail(db, "foreign_key")
          ELSE ReverseAndDelete(
                 [r.db EXCEPT !.transactions =
                     IF pending = None THEN @ ELSE Drop(@, {pending})],
                 Tail(order), Head(order))

(* delete_transaction that reverses and removes the requested row only *)
delete_transaction_one_leg(db, transaction_id, user_id, order) ==
  IF transaction_id \notin DOMAIN db.transactions THEN Fail(db, "transaction_not_found")
  ELSE
    LET transaction == db.transactions[transaction_id]
    IN IF transaction.account_id \notin DOMAIN db.accounts
          \/ LedgerUser(db.accounts[transaction.account_id].ledger_id) # user_id
       THEN Fail(db, "access_denied")
       ELSE LET r == ReverseAndDelete(db, <<transaction_id>>, None)
            IN IF r.err # "" THEN r
               ELSE Ok([r.db EXCEPT !.transactions = Drop(@, {r.id})], transaction_id)

(* transaction_crud.delete_transaction *)
delete_transaction(db, transaction_id, user_id, order) ==
  IF transaction_id \notin DOMAIN db.transactions THEN Fail(db, "transaction_not_found")
  ELSE
    LET transaction == db.transactions[transaction_id]
        rows == IF transaction.is_transfer THEN order ELSE <<transaction_id>>
    IN IF transaction.account_id \notin DOMAIN db.accounts
          \/ LedgerUser(db.accounts[transaction.account_id].ledger_id) # user_id
       THEN Fail(db, "access_denied")
       ELSE IF transaction.is_transfer /\ Len(order) # 2
       THEN Fail(db, "invalid_transfer")
       ELSE LET r == ReverseAndDelete(db, rows, None)
            IN IF r.err # "" THEN r
               ELSE IF r.id \in ReferencedTransactions(r.db)
               THEN Fail(r.db, "foreign_key")
               ELSE Ok([r.db EXCEPT !.transactions = Drop(@, {r.id})], transaction_id)


TransactionCreate(account_id, type, credit, debit, is_split, splits, tagNames, is_transfer, transfer_id, transfer_type, is_asset_transaction) ==
  [account_id |-> account_id, type |-> type, credit |-> credit, debit |-> debit,
   is_split |-> is_split, splits |-> splits, tags |-> tagNames,
   is_transfer |-> is_transfer, transfer_id |-> transfer_id,
   transfer_type |-> transfer_type, is_asset_transaction |-> is_asset_transaction]

(* transaction_crud.create_transfer_transaction; destination_amount is     *)
(* Absent when the request leaves it out.  The transfer_id (uuid4) is a    *)
(* value no other transfer carries: the key of the source leg.             *)
create_transfer_transaction(db, user_id, source_account_id, destination_account_id, source_amount, destination_amount, tagNames) ==
  IF source_account_id \notin DOMAIN db.accounts
     \/ destination_account_id \notin DOMAIN db.accounts
  THEN Fail(db, "account_not_found")
  ELSE
    LET source_account == db.accounts[source_account_id]
        destination_account == db.accounts[destination_account_id]
        same_ledger == source_account.ledger_id = destination_account.ledger_id
        dest_amount == IF same_ledger \/ destination_amount = Absent THEN source_amount
                       ELSE destination_amount[1]
        transfer_id == db.nextTxId
        transferOut == TransactionCreate(source_account_id, "expense", 0, source_amount,
                          FALSE, <<>>, tagNames, TRUE, transfer_id, "source", FALSE)
        transferIn == TransactionCreate(destination_account_id, "income", dest_amount, 0,
                          FALSE, <<>>, tagNames, TRUE, transfer_id, "destination", FALSE)
        r1 == create_transaction(db, transferOut)
        r2 == create_transaction(r1.db, transferIn)
    IN IF source_account_id = destination_account_id THEN Fail(db, "same_account")
       ELSE IF LedgerUser(source_account.ledger_id) # user_id
               \/ LedgerUser(destination_account.ledger_id) # user_id
       THEN Fail(db, "not_owner")
       ELSE IF source_account.is_group \/ destination_account.is_group
       THEN Fail(db, "group_account")
       ELSE IF same_ledger /\ destination_amount # Absent
       THEN Fail(db, "destination_amount_given")
       ELSE IF ~same_ledger /\ destination_amount = Absent
       THEN Fail(db, "destination_amount_missing")
       ELSE IF source_amount <= 0 \/ dest_amount <= 0 THEN Fail(db, "invalid_amount")
       ELSE IF r1.err # "" THEN r1
       ELSE IF r2.err # "" THEN r2
       ELSE Ok(r2.db, transfer_id)

(* A field of TransactionUpdate: the stored value stays when it is not sent *)
Patched(old, new) == IF new = Absent THEN old ELSE new[1]

NoPatch == [account_id |-> Absent, credit |-> Absent, debit |-> Absent,
            is_split |-> Absent, splits |-> Absent, tags |-> Absent]

(* update_transaction reversing the effect of the values it is about to    *)
(* store instead of the values stored                                      *)
update_transaction_reverse_new(db, transaction_id, patch, user_id) ==
  IF transaction_id \notin DOMAIN db.transactions THEN Fail(db, "transaction_not_found")
  ELSE
    LET old == db.transactions[transaction_id]
        r1 == update_account_balance(db, Patched(old.account_id, patch.account_id),
                                    Patched(old.credit, patch.credit),
                                    Patched(old.debit, patch.debit), TRUE)
        new == [old EXCEPT !.account_id = Patched(@, patch.account_id),
                           !.credit = Patched(@, patch.credit),
                           !.debit = Patched(@, patch.debit),
                           !.is_split = Patched(@, patch.is_split),
                           !.splits = Patched(@, patch.splits),
                           !.tags = IF patch.tags = Absent THEN @ ELSE Range(patch.tags[1])]
        db2 == [r1.db EXCEPT !.transactions[transaction_id] = new,
                             !.tags = IF patch.tags = Absent THEN @
                                      ELSE @ \cup {<<user_id, n>> : n \in Range(patch.tags[1])}]
        r3 == update_account_balance(db2, new.account_id, new.credit, new.debit, FALSE)
    IN IF old.account_id \notin DOMAIN db.accounts
          \/ LedgerUser(db.accounts[old.account_id].ledger_id) # user_id
       THEN Fail(db, "access_denied")
       ELSE IF r1.err # "" THEN r1
       ELSE IF new.account_id \notin DOMAIN db.accounts THEN Fail(r1.db, "foreign_key")
       ELSE IF patch.tags # Absent /\ HasDuplicates(patch.tags[1])
       THEN Fail(r1.db, "duplicate_tag")
       ELSE IF r3.err # "" THEN r3
       ELSE Ok(r3.db, transaction_id)

(* transaction_crud.update_transaction: reverse the stored effect (commit), *)
(* set the fields, replace splits and tags (commit), apply the new effect   *)
(* (commit)                                                                 *)
update_transaction(db, transaction_id, patch, user_id) ==
  IF transaction_id \notin DOMAIN db.transactions THEN Fail(db, "transaction_not_found")
  ELSE
    LET old == db.transactions[transaction_id]
        r1 == update_account_balance(db, old.account_id, old.credit, old.debit, TRUE)
        new == [old EXCEPT !.account_id = Patched(@, patch.account_id),
                           !.credit = Patched(@, patch.credit),
                           !.debit = Patched(@, patch.debit),
                           !.is_split = Patched(@, patch.is_split),
                           !.splits = Patched(@, patch.splits),
                           !.tags = IF patch.tags = Absent THEN @ ELSE Range(patch.tags[1])]
        db2 == [r1.db EXCEPT !.transactions[transaction_id] = new,
                             !.tags = IF patch.tags = Absent THEN @
                                      ELSE @ \cup {<<user_id, n>> : n \in Range(patch.tags[1])}]
        r3 == update_account_balance(db2, new.account_id, new.credit, new.debit, FALSE)
    IN IF old.account_id \notin DOMAIN db.accounts
          \/ LedgerUser(db.accounts[old.account_id].ledger_id) # user_id
       THEN Fail(db, "access_denied")
       ELSE IF r1.err # "" THEN r1
       ELSE IF new.account_id \notin DOMAIN db.accounts THEN Fail(r1.db, "foreign_key")
       ELSE IF patch.tags # Absent /\ HasDuplicates(patch.tags[1])
       THEN Fail(r1.db, "duplicate_tag")
       ELSE IF r3.err # "" THEN r3
       ELSE Ok(r3.db, transaction_id)

---------------------------------------------------------------------------
(* Mutual funds *)

(* The categories table: category_id -> row; no modelled request writes it *)
Categories ==
  [c \in {1, 2} |-> [user_id |-> 1, type |-> IF c = 1 THEN "expense" ELSE "income"]]

(* mutual_fund_crud.create_mutual_fund: a fund starts with the column defaults *)
create_mutual_fund(db, ledger_id) ==
  LET id == Cardinality(DOMAIN db.funds) + 1
  IN Ok([db EXCEPT !.funds = Put(@, id,
            [ledger_id |-> ledger_id, total_units |-> 0, average_cost_per_unit |-> 0,
             latest_nav |-> 0, current_value |-> 0, total_realized_gain |-> 0,
             total_invested_cash |-> 0, external_cash_invested |-> 0])], id)

(* update_mutual_fund_balances with the plain mean of the old average and  *)
(* the price of the units added                                            *)
update_mutual_fund_balances_plain_mean(db, mutual_fund_id, units_change, total_amount) ==
  IF mutual_fund_id \notin DOMAIN db.funds THEN Fail(db, "fund_not_found")
  ELSE
    LET db_fund == db.funds[mutual_fund_id]
        new_total_units == db_fund.total_units + units_change
        new_avg_cost ==
          IF new_total_units = 0 THEN 0
          ELSE IF db_fund.total_units = 0 \/ units_change <= 0
          THEN RoundDiv(db_fund.total_units * db_fund.average_cost_per_unit + total_amount,
                        new_total_units)
          ELSE RoundDiv(db_fund.average_cost_per_unit * units_change + total_amount,
                        2 * units_change)
    IN IF new_total_units < 0 THEN Fail(db, "insufficient_units")
       ELSE Ok([db EXCEPT !.funds[mutual_fund_id] =
                   [db_fund EXCEPT !.total_units = new_total_units,
                                   !.average_cost_per_unit = new_avg_cost,
                                   !.current_value = new_total_units * db_fund.latest_nav]],
               mutual_fund_id)

(* mutual_fund_crud.update_mutual_fund_balances; total_amount is in units  *)
(* of the average cost column; it commits the session                      *)
update_mutual_fund_balances(db, mutual_fund_id, units_change, total_amount) ==
  IF mutual_fund_id \notin DOMAIN db.funds THEN Fail(db, "fund_not_found")
  ELSE
    LET db_fund == db.funds[mutual_fund_id]
        new_total_units == db_fund.total_units + units_change
        new_avg_cost ==
          IF new_total_units = 0 THEN 0
          ELSE RoundDiv(db_fund.total_units * db_fund.average_cost_per_unit + total_amount,
                        new_total_units)
    IN IF new_total_units < 0 THEN Fail(db, "insufficient_units")
       ELSE Ok([db EXCEPT !.funds[mutual_fund_id] =
                   [db_fund EXCEPT !.total_units = new_total_units,
                                   !.average_cost_per_unit = new_avg_cost,
                                   !.current_value = new_total_units * db_fund.latest_nav]],
               mutual_fund_id)

(* A request body of MfTransactionCreate; nav_per_unit is the quotient     *)
(* <<amount, units>> the switch endpoint computes, Absent for buy and sell *)
MfTransactionCreate(mutual_fund_id, transaction_type, units, nav_per_unit, amount_excluding_charges, other_charges, expense_category_id, account_id, target_fund_id, cost_basis_of_units_sold) ==
  [mutual_fund_id |-> mutual_fund_id, transaction_type |-> transaction_type,
   units |-> units, nav_per_unit |-> nav_per_unit,
   amount_excluding_charges |-> amount_excluding_charges,
   other_charges |-> other_charges, expense_category_id |-> expense_category_id,
   account_id |-> account_id, target_fund_id |-> target_fund_id,
   cost_basis_of_units_sold |-> cost_basis_of_units_sold,
   linked_transaction_id |-> None]

(* The mf_transactions row create_mf_transaction inserts last; money       *)
(* columns are Numeric(15,2)                                               *)
MfTransactionRow(ledger_id, d, nav_per_unit, total_amount, financial_transaction_id, linked_charge_transaction_id, realized_gain, cost_basis_of_units_sold) ==
  [ledger_id |-> ledger_id, mutual_fund_id |-> d.mutual_fund_id,
   transaction_type |-> d.transaction_type, units |-> d.units,
   nav_per_unit |-> Stored(nav_per_unit), total_amount |-> total_amount,
   amount_excluding_charges |-> d.amount_excluding_charges,
   other_charges |-> d.other_charges, account_id |-> d.account_id,
   target_fund_id |-> d.target_fund_id,
   financial_transaction_id |-> financial_transaction_id,
   linked_charge_transaction_id |-> linked_charge_transaction_id,
   linked_transaction_id |-> d.linked_transaction_id,
   realized_gain |-> RoundDiv(realized_gain, Fine),
   cost_basis_of_units_sold |-> RoundDiv(cost_basis_of_units_sold, Fine)]

InsertMfTransaction(db, row) ==
  Ok([db EXCEPT !.mfTransactions = Put(@, db.nextMfId, row), !.nextMfId = @ + 1],
     db.nextMfId)

(* The transactions row of a fund purchase, redemption or charge *)
MfFinancialRow(account_id, credit, debit) ==
  [account_id |-> account_id, credit |-> credit, debit |-> debit,
   is_split |-> FALSE, is_transfer |-> FALSE, is_asset_transaction |-> FALSE,
   is_mf_transaction |-> TRUE, transfer_id |-> None, transfer_type |-> "",
   splits |-> <<>>, tags |-> {}]

AddToBalance(db, account_id, change) ==
  [db EXCEPT !.accounts[account_id].balance = @ + change,
             !.accounts[account_id].net_balance = @ + change]

(* create_mf_transaction for buy and sell: the financial row is committed, *)
(* then the charge row, then the account balance; the units held are       *)
(* checked after that                                                      *)
MfBuySell(db, ledger_id, d) ==
  LET fund == db.funds[d.mutual_fund_id]
      buy == d.transaction_type = "buy"
      amount_excluding_charges == d.amount_excluding_charges
      other_charges == d.other_charges
      nav_per_unit == <<amount_excluding_charges, d.units>>
      total_amount == IF buy THEN amount_excluding_charges + other_charges
                      ELSE amount_excluding_charges - other_charges
      financial_transaction_id == db.nextTxId
      db1 == [db EXCEPT !.transactions =
                           Put(@, financial_transaction_id,
                               MfFinancialRow(d.account_id,
                                 IF buy THEN 0 ELSE amount_excluding_charges,
                                 IF buy THEN amount_excluding_charges ELSE 0)),
                        !.nextTxId = @ + 1]
      account_amount_change == IF buy THEN -amount_excluding_charges
                               ELSE amount_excluding_charges
      category_found ==
        /\ d.expense_category_id \in DOMAIN Categories
        /\ Categories[d.expense_category_id].user_id = LedgerUser(fund.ledger_id)
        /\ Categories[d.expense_category_id].type = "expense"
      linked_charge_transaction_id == IF other_charges > 0 THEN db1.nextTxId ELSE None
      db2 == IF other_charges > 0
             THEN [AddToBalance(db1, d.account_id, account_amount_change - other_charges)
                     EXCEPT !.transactions =
                              Put(@, linked_charge_transaction_id,
                                  MfFinancialRow(d.account_id, 0, other_charges)),
                            !.nextTxId = @ + 1]
             ELSE AddToBalance(db1, d.account_id, account_amount_change)
      cost_basis_of_units_sold == IF buy THEN 0 ELSE d.units * fund.average_cost_per_unit
      realized_gain == IF buy THEN 0 ELSE Fine * total_amount - cost_basis_of_units_sold
      db3 == IF buy THEN db2
             ELSE [db2 EXCEPT
                     !.funds[d.mutual_fund_id].total_realized_gain = @ + realized_gain,
                     !.funds[d.mutual_fund_id].total_invested_cash =
                         @ - cost_basis_of_units_sold,
                     !.funds[d.mutual_fund_id].external_cash_invested =
                         @ - cost_basis_of_units_sold]
      r4 == update_mutual_fund_balances(db3, d.mutual_fund_id,
               IF buy THEN d.units ELSE -d.units,
               IF buy THEN Fine * amount_excluding_charges ELSE -cost_basis_of_units_sold)
      db5 == IF buy
             THEN [r4.db EXCEPT
                     !.funds[d.mutual_fund_id].total_invested_cash =
                         @ + Fine * amount_excluding_charges,
                     !.funds[d.mutual_fund_id].external_cash_invested =
                         @ + Fine * amount_excluding_charges]
             ELSE r4.db
      db6 == [db5 EXCEPT
                !.funds[d.mutual_fund_id].latest_nav = Stored(nav_per_unit),
                !.funds[d.mutual_fund_id].current_value =
                    Stored(FracTimes(db5.funds[d.mutual_fund_id].total_units, nav_per_unit))]
  IN IF d.account_id = None THEN Fail(db, "account_required")
     ELSE IF d.account_id \notin DOMAIN db.accounts
             \/ db.accounts[d.account_id].ledger_id # ledger_id
     THEN Fail(db, "account_not_found")
     ELSE IF db.accounts[d.account_id].is_group THEN Fail(db, "group_account")
     ELSE IF amount_excluding_charges <= 0 THEN Fail(db, "invalid_amount")
     ELSE IF other_charges < 0 THEN Fail(db, "invalid_charges")
     ELSE IF other_charges > 0 /\ d.expense_category_id = None
     THEN Fail(db, "category_required")
     ELSE IF other_charges > 0 /\ ~category_found THEN Fail(db1, "invalid_category")
     ELSE IF ~buy /\ fund.total_units < d.units THEN Fail(db2, "insufficient_units")
     ELSE IF r4.err # "" THEN r4
     ELSE InsertMfTransaction(db6,
            MfTransactionRow(ledger_id, d, nav_per_unit, total_amount,
                             financial_transaction_id, linked_charge_transaction_id,
                             realized_gain, cost_basis_of_units_sold))

(* The mf_transactions row of a switch leg.  create_mf_transaction passes  *)
(* its local amount_excluding_charges, None on this path, for a column     *)
(* models/model.py declares NOT NULL; whether the deployed table accepts   *)
(* it is the caller's amount_nullable.                                     *)
InsertSwitchRow(db, row, amount_nullable) ==
  IF amount_nullable
  THEN InsertMfTransaction(db, [row EXCEPT !.amount_excluding_charges = None])
  ELSE Fail(db, "not_null_violation")

(* create_mf_transaction for switch_out: every check precedes the update *)
MfSwitchOut(db, ledger_id, d, amount_nullable) ==
  LET fund == db.funds[d.mutual_fund_id]
      from_units == d.units
      from_nav == d.nav_per_unit
      total_value_switched_out == Stored(FracTimes(Fine * from_units, from_nav))
      cost_basis_of_units_sold == from_units * fund.average_cost_per_unit
      realized_gain == total_value_switched_out - cost_basis_of_units_sold
      db1 == [db EXCEPT !.funds[d.mutual_fund_id].total_realized_gain = @ + realized_gain]
      r2 == update_mutual_fund_balances(db1, d.mutual_fund_id, -from_units,
                                        -cost_basis_of_units_sold)
      db3 == [r2.db EXCEPT
                !.funds[d.mutual_fund_id].total_invested_cash =
                    @ - cost_basis_of_units_sold,
                !.funds[d.mutual_fund_id].latest_nav = Stored(from_nav),
                !.funds[d.mutual_fund_id].current_value =
                    Stored(FracTimes(r2.db.funds[d.mutual_fund_id].total_units, from_nav))]
  IN IF d.target_fund_id = None THEN Fail(db, "target_required")
     ELSE IF d.target_fund_id \notin DOMAIN db.funds
             \/ db.funds[d.target_fund_id].ledger_id # ledger_id
     THEN Fail(db, "target_not_found")
     ELSE IF d.target_fund_id = d.mutual_fund_id THEN Fail(db, "same_fund")
     ELSE IF fund.total_units < d.units THEN Fail(db, "insufficient_units")
     ELSE IF from_nav[1] <= 0 THEN Fail(db, "invalid_nav")
     ELSE IF r2.err # "" THEN r2
     ELSE InsertSwitchRow(db3,
            MfTransactionRow(ledger_id, d, from_nav, Stored(FracTimes(from_units, from_nav)),
                             None, None, realized_gain, cost_basis_of_units_sold),
            amount_nullable)

(* create_mf_transaction for switch_in: the cost basis is the request's *)
MfSwitchIn(db, ledger_id, d, amount_nullable) ==
  LET to_units == d.units
      to_nav == d.nav_per_unit
      cost_basis_of_units_sold == Fine * d.cost_basis_of_units_sold
      r1 == update_mutual_fund_balances(db, d.mutual_fund_id, to_units,
                                        cost_basis_of_units_sold)
      db2 == [r1.db EXCEPT
                !.funds[d.mutual_fund_id].total_invested_cash =
                    @ + cost_basis_of_units_sold,
                !.funds[d.mutual_fund_id].latest_nav = Stored(to_nav),
                !.funds[d.mutual_fund_id].current_value =
                    Stored(FracTimes(r1.db.funds[d.mutual_fund_id].total_units, to_nav))]
  IN IF d.target_fund_id = None THEN Fail(db, "source_required")
     ELSE IF d.target_fund_id \notin DOMAIN db.funds
             \/ db.funds[d.target_fund_id].ledger_id # ledger_id
     THEN Fail(db, "source_not_found")
     ELSE IF d.target_fund_id = d.mutual_fund_id THEN Fail(db, "same_fund")
     ELSE IF to_nav[1] <= 0 THEN Fail(db, "invalid_nav")
     ELSE IF d.cost_basis_of_units_sold = None THEN Fail(db, "cost_basis_required")
     ELSE IF r1.err # "" THEN r1
     ELSE InsertSwitchRow(db2,
            MfTransactionRow(ledger_id, d, to_nav, Stored(FracTimes(to_units, to_nav)),
                             None, None, 0, cost_basis_of_units_sold),
            amount_nullable)

(* mf_transaction_crud.create_mf_transaction *)
create_mf_transaction(db, ledger_id, d, amount_nullable) ==
  IF d.mutual_fund_id \notin DOMAIN db.funds
     \/ db.funds[d.mutual_fund_id].ledger_id # ledger_id
  THEN Fail(db, "fund_not_found")
  ELSE IF d.transaction_type \in {"buy", "sell"} THEN MfBuySell(db, ledger_id, d)
  ELSE IF d.transaction_type = "switch_out" THEN MfSwitchOut(db, ledger_id, d, amount_nullable)
  ELSE MfSwitchIn(db, ledger_id, d, amount_nullable)

(* mf_transaction_crud.update_mf_transaction_linked_id *)
update_mf_transaction_linked_id(db, mf_transaction_id, linked_id) ==
  IF mf_transaction_id \notin DOMAIN db.mfTransactions THEN Fail(db, "mf_transaction_not_found")
  ELSE Ok([db EXCEPT !.mfTransactions[mf_transaction_id].linked_transaction_id = linked_id],
          mf_transaction_id)

(* The call of update_mutual_fund_balances by which delete_mf_transaction  *)
(* takes the units and the cost of a row back out of its fund              *)
ReverseUnits(db, row) ==
  LET type == row.transaction_type
  IN update_mutual_fund_balances(db, row.mutual_fund_id,
       IF type \in {"buy", "switch_in"} THEN -row.units ELSE row.units,
       IF type = "buy" THEN -(Fine * row.amount_excluding_charges)
       ELSE IF type = "switch_in" THEN -(Fine * row.cost_basis_of_units_sold)
       ELSE Fine * row.cost_basis_of_units_sold)

(* The fund totals delete_mf_transaction then adjusts for the row *)
ReverseTotals(db, row) ==
  LET type == row.transaction_type
      fund == db.funds[row.mutual_fund_id]
      amount == Fine * row.amount_excluding_charges
      cost_basis == Fine * row.cost_basis_of_units_sold
      gain == Fine * row.realized_gain
  IN [db EXCEPT !.funds[row.mutual_fund_id] =
       IF type = "buy"
       THEN [fund EXCEPT !.total_invested_cash = @ - amount,
                         !.external_cash_invested = @ - amount]
       ELSE IF type = "sell"
       THEN [fund EXCEPT !.total_realized_gain = @ - gain,
                         !.total_invested_cash = @ + cost_basis,
                         !.external_cash_invested = @ + cost_basis]
       ELSE IF type = "switch_out"
       THEN [fund EXCEPT !.total_realized_gain = @ - gain,
                         !.total_invested_cash = @ + cost_basis]
       ELSE [fund EXCEPT !.total_invested_cash = @ - cost_basis]]

(* The linked financial row of a buy or sell goes, its amount goes back    *)
(* to the account                                                          *)
DeleteFinancial(db, row) ==
  LET id == row.financial_transaction_id
      financial_transaction == db.transactions[id]
      amount == IF financial_transaction.credit > 0 THEN financial_transaction.credit
                ELSE financial_transaction.debit
      change == IF row.transaction_type = "buy" THEN amount
                ELSE IF row.transaction_type = "sell" THEN -amount ELSE 0
  IN IF id = None \/ id \notin DOMAIN db.transactions THEN db
     ELSE [AddToBalance(db, financial_transaction.account_id, change)
             EXCEPT !.transactions = Drop(@, {id})]

DeleteCharge(db, row) ==
  LET id == row.linked_charge_transaction_id
      charge_transaction == db.transactions[id]
  IN IF id = None \/ id \notin DOMAIN db.transactions THEN db
     ELSE [AddToBalance(db, charge_transaction.account_id, charge_transaction.debit)
             EXCEPT !.transactions = Drop(@, {id})]

(* mf_transaction_crud.delete_mf_transaction: each call of                 *)
(* update_mutual_fund_balances commits what is pending; the rest is        *)
(* committed at the end                                                    *)
delete_mf_transaction(db, mf_transaction_id) ==
  IF mf_transaction_id \notin DOMAIN db.mfTransactions
  THEN Fail(db, "mf_transaction_not_found")
  ELSE
    LET db_transaction == db.mfTransactions[mf_transaction_id]
        r1 == ReverseUnits(db, db_transaction)
        db2 == DeleteCharge(DeleteFinancial(ReverseTotals(r1.db, db_transaction),
                                            db_transaction), db_transaction)
        linked_id == db_transaction.linked_transaction_id
        linked == linked_id # None /\ linked_id \in DOMAIN db.mfTransactions
        linked_transaction == db.mfTransactions[linked_id]
        switch == linked /\ linked_transaction.transaction_type \in {"switch_out", "switch_in"}
        r3 == IF switch THEN ReverseUnits(db2, linked_transaction) ELSE Ok(db2, None)
        db4 == IF switch THEN ReverseTotals(r3.db, linked_transaction) ELSE db2
        db5 == IF linked THEN [db4 EXCEPT !.mfTransactions = Drop(@, {linked_id})] ELSE db4
    IN IF r1.err # "" THEN Fail(db, r1.err)
       ELSE IF r3.err # "" THEN Fail(r1.db, r3.err)
       ELSE Ok([db5 EXCEPT !.mfTransactions = Drop(@, {mf_transaction_id})],
               mf_transaction_id)

---------------------------------------------------------------------------
(* Physical assets *)

(* physical_asset_crud.create_physical_asset: an asset starts with the     *)
(* column defaults                                                         *)
create_physical_asset(db, ledger_id) ==
  LET id == Cardinality(DOMAIN db.assets) + 1
  IN Ok([db EXCEPT !.assets = Put(@, id,
            [ledger_id |-> ledger_id, total_quantity |-> 0, average_cost_per_unit |-> 0,
             latest_price_per_unit |-> 0, current_value |-> 0])], id)

(* update_asset_quantities_and_costs that keeps the average cost when the  *)
(* last unit goes                                                          *)
update_asset_quantities_and_costs_keep_average(db, physical_asset_id, quantity_change, total_cost, price_per_unit) ==
  IF physical_asset_id \notin DOMAIN db.assets THEN Fail(db, "asset_not_found")
  ELSE
    LET db_asset == db.assets[physical_asset_id]
        new_quantity == db_asset.total_quantity + quantity_change
        new_average_cost ==
          IF quantity_change > 0
          THEN RoundDiv(db_asset.total_quantity * db_asset.average_cost_per_unit + total_cost,
                        new_quantity)
          ELSE db_asset.average_cost_per_unit
    IN IF new_quantity < 0 THEN Fail(db, "insufficient_quantity")
       ELSE Ok([db EXCEPT !.assets[physical_asset_id] =
                   [db_asset EXCEPT !.total_quantity = new_quantity,
                                    !.average_cost_per_unit = new_average_cost,
                                    !.latest_price_per_unit = price_per_unit,
                                    !.current_value = new_quantity * price_per_unit]],
               physical_asset_id)

(* physical_asset_crud.update_asset_quantities_and_costs, called with a    *)
(* price_per_unit                                                          *)
update_asset_quantities_and_costs(db, physical_asset_id, quantity_change, total_cost, price_per_unit) ==
  IF physical_asset_id \notin DOMAIN db.assets THEN Fail(db, "asset_not_found")
  ELSE
    LET db_asset == db.assets[physical_asset_id]
        new_quantity == db_asset.total_quantity + quantity_change
        new_average_cost ==
          IF new_quantity = 0 THEN 0
          ELSE IF quantity_change > 0
          THEN RoundDiv(db_asset.total_quantity * db_asset.average_cost_per_unit + total_cost,
                        new_quantity)
          ELSE db_asset.average_cost_per_unit
    IN IF new_quantity < 0 THEN Fail(db, "insufficient_quantity")
       ELSE Ok([db EXCEPT !.assets[physical_asset_id] =
                   [db_asset EXCEPT !.total_quantity = new_quantity,
                                    !.average_cost_per_unit = new_average_cost,
                                    !.latest_price_per_unit = price_per_unit,
                                    !.current_value = new_quantity * price_per_unit]],
               physical_asset_id)

AssetTransactionCreate(physical_asset_id, transaction_type, quantity, price_per_unit, account_id, transaction_date) ==
  [physical_asset_id |-> physical_asset_id, transaction_type |-> transaction_type,
   quantity |-> quantity, price_per_unit |-> price_per_unit, account_id |-> account_id,
   transaction_date |-> transaction_date]

(* asset_transaction_crud._create_financial_transaction *)
create_financial_transaction(db, account_id, transaction_type, total_amount) ==
  create_transaction(db,
    TransactionCreate(account_id,
                      IF transaction_type = "buy" THEN "expense" ELSE "income",
                      IF transaction_type = "buy" THEN 0 ELSE total_amount,
                      IF transaction_type = "buy" THEN total_amount ELSE 0,
                      FALSE, <<>>, <<>>, FALSE, None, "", TRUE))

(* asset_transaction_crud.create_asset_transaction: create_transaction     *)
(* commits the financial row and the balance, the asset row and the asset  *)
(* follow in one commit                                                    *)
create_asset_transaction(db, ledger_id, d) ==
  IF d.physical_asset_id \notin DOMAIN db.assets
     \/ db.assets[d.physical_asset_id].ledger_id # ledger_id
  THEN Fail(db, "asset_not_found")
  ELSE IF d.account_id \notin DOMAIN db.accounts
          \/ db.accounts[d.account_id].ledger_id # ledger_id
  THEN Fail(db, "account_not_found")
  ELSE
    LET physical_asset == db.assets[d.physical_asset_id]
        account == db.accounts[d.account_id]
        buy == d.transaction_type = "buy"
        total_amount == d.quantity * d.price_per_unit
        r1 == create_financial_transaction(db, d.account_id, d.transaction_type, total_amount)
        id == r1.db.nextAssetTxId
        db2 == [r1.db EXCEPT
                  !.assetTransactions =
                     Put(@, id,
                         [ledger_id |-> ledger_id, physical_asset_id |-> d.physical_asset_id,
                          transaction_type |-> d.transaction_type, quantity |-> d.quantity,
                          price_per_unit |-> d.price_per_unit, total_amount |-> total_amount,
                          account_id |-> d.account_id, financial_transaction_id |-> r1.id,
                          transaction_date |-> d.transaction_date]),
                  !.nextAssetTxId = @ + 1]
        r3 == update_asset_quantities_and_costs(db2, d.physical_asset_id,
                 IF buy THEN d.quantity ELSE -d.quantity,
                 IF buy THEN total_amount ELSE 0, d.price_per_unit)
    IN IF ~buy /\ physical_asset.total_quantity < d.quantity
       THEN Fail(db, "insufficient_quantity")
       ELSE IF buy /\ account.net_balance < total_amount THEN Fail(db, "insufficient_balance")
       ELSE IF r1.err # "" THEN r1
       ELSE IF r3.err # "" THEN Fail(r1.db, r3.err)
       ELSE Ok(r3.db, id)

(* The rows of an asset in ascending (transaction_date, created_at);       *)
(* created_at ascends with the primary key                                 *)
RemainingTransactions(db, physical_asset_id) ==
  LET rows == db.assetTransactions
      S == {x \in DOMAIN rows : rows[x].physical_asset_id = physical_asset_id}
  IN CHOOSE s \in Orderings(S) :
       \A i, j \in DOMAIN s :
         i < j => \/ rows[s[i]].transaction_date < rows[s[j]].transaction_date
                  \/ /\ rows[s[i]].transaction_date = rows[s[j]].transaction_date
                     /\ s[i] < s[j]

(* The replay loop ending at the first sell of more than was accumulated   *)
RECURSIVE ReplayStopsAtOversell(_, _)
ReplayStopsAtOversell(txs, s) ==
  IF txs = <<>> THEN s
  ELSE
    LET tx == Head(txs)
        bought == s.new_total_quantity + tx.quantity
        cost == FracAdd(s.current_total_cost, Frac(tx.total_amount))
    IN IF tx.transaction_type = "buy"
       THEN ReplayStopsAtOversell(Tail(txs),
              [new_total_quantity |-> bought, current_total_cost |-> cost,
               new_average_cost |-> IF bought > 0 THEN FracOver(cost, bought)
                                    ELSE s.new_average_cost])
       ELSE IF s.new_total_quantity >= tx.quantity
       THEN ReplayStopsAtOversell(Tail(txs),
              [s EXCEPT !.new_total_quantity = @ - tx.quantity,
                        !.current_total_cost =
                            FracSub(@, FracTimes(tx.quantity, s.new_average_cost))])
       ELSE [s EXCEPT !.new_total_quantity = 0, !.current_total_cost = Frac(0)]

(* The replay loop of delete_asset_transaction over the rows txs; the      *)
(* running values are Decimals in memory                                   *)
RECURSIVE Replay(_, _)
Replay(txs, s) ==
  IF txs = <<>> THEN s
  ELSE
    LET tx == Head(txs)
        bought == s.new_total_quantity + tx.quantity
        cost == FracAdd(s.current_total_cost, Frac(tx.total_amount))
    IN Replay(Tail(txs),
         IF tx.transaction_type = "buy"
         THEN [new_total_quantity |-> bought, current_total_cost |-> cost,
               new_average_cost |-> IF bought > 0 THEN FracOver(cost, bought)
                                    ELSE s.new_average_cost]
         ELSE IF s.new_total_quantity >= tx.quantity
         THEN [s EXCEPT !.new_total_quantity = @ - tx.quantity,
                        !.current_total_cost =
                            FracSub(@, FracTimes(tx.quantity, s.new_average_cost))]
         ELSE [s EXCEPT !.new_total_quantity = 0, !.current_total_cost = Frac(0)])

(* asset_transaction_crud.delete_asset_transaction: one commit at the end *)
delete_asset_transaction(db, asset_transaction_id) ==
  IF asset_transaction_id \notin DOMAIN db.assetTransactions
  THEN Fail(db, "asset_transaction_not_found")
  ELSE
    LET db_transaction == db.assetTransactions[asset_transaction_id]
        physical_asset_id == db_transaction.physical_asset_id
        account_id == db_transaction.account_id
        db1 == [db EXCEPT
                  !.transactions = Drop(@, {db_transaction.financial_transaction_id}),
                  !.assetTransactions = Drop(@, {asset_transaction_id})]
        order == RemainingTransactions(db1, physical_asset_id)
        remaining_transactions == [i \in DOMAIN order |-> db1.assetTransactions[order[i]]]
        replayed == Replay(remaining_transactions,
                           [new_total_quantity |-> 0, new_average_cost |-> Frac(0),
                            current_total_cost |-> Frac(0)])
        new_total_quantity ==
          IF replayed.new_total_quantity <= 0 THEN 0 ELSE replayed.new_total_quantity
        new_average_cost ==
          IF replayed.new_total_quantity <= 0 THEN 0 ELSE Stored(replayed.new_average_cost)
        latest_price_per_unit ==
          IF remaining_transactions = <<>> THEN 0
          ELSE remaining_transactions[Len(remaining_transactions)].price_per_unit
        db2 == [db1 EXCEPT !.assets[physical_asset_id] =
                  [@ EXCEPT !.total_quantity = new_total_quantity,
                            !.average_cost_per_unit = new_average_cost,
                            !.latest_price_per_unit = latest_price_per_unit,
                            !.current_value = new_total_quantity * latest_price_per_unit]]
        balance == db.accounts[account_id].balance
                     + (IF db_transaction.transaction_type = "buy"
                        THEN db_transaction.total_amount
                        ELSE -db_transaction.total_amount)
    IN IF physical_asset_id \notin DOMAIN db.assets THEN Fail(db, "asset_not_found")
       ELSE IF account_id \notin DOMAIN db.accounts THEN Ok(db2, asset_transaction_id)
       ELSE Ok(SetBalance(db2, account_id, balance), asset_transaction_id)

---------------------------------------------------------------------------
(* Requests *)

Split(credit, debit) == [credit |-> credit, debit |-> debit]

(* The accounts the ledgers start with, each made by create_account *)
EmptyDB ==
  [accounts |-> <<>>, transactions |-> <<>>, tags |-> {}, nextTxId |-> 1,
   funds |-> <<>>, mfTransactions |-> <<>>, nextMfId |-> 1, assets |-> <<>>,
   assetTransactions |-> <<>>, nextAssetTxId |-> 1]

InitialAccounts ==
  << <<1, "cash", "asset", FALSE, Absent, None>>,
     <<1, "card", "liability", FALSE, Some(1), None>>,
     <<2, "bank", "asset", FALSE, Some(0), None>>,
     <<3, "cash", "asset", FALSE, Absent, None>>,
     <<1, "group", "asset", TRUE, Absent, None>>,
     <<1, "savings", "asset", FALSE, Some(6), None>> >>

RECURSIVE WithAccounts(_, _)
WithAccounts(db, reqs) ==
  IF reqs = <<>> THEN db
  ELSE LET q == Head(reqs)
       IN WithAccounts(create_account(db, q[1], q[2], q[3], q[4], q[5], q[6]).db, Tail(reqs))

Cash == 1
Card == 2
Bank == 3
OtherUserCash == 4
GroupAccount == 5
Savings == 6

(* The funds and the asset the ledgers start with, by ledger *)
InitialFunds == <<1, 1, 3>>
InitialAssets == <<1>>

RECURSIVE WithFunds(_, _)
WithFunds(db, ledgers) ==
  IF ledgers = <<>> THEN db
  ELSE WithFunds(create_mutual_fund(db, Head(ledgers)).db, Tail(ledgers))

RECURSIVE WithAssets(_, _)
WithAssets(db, ledgers) ==
  IF ledgers = <<>> THEN db
  ELSE WithAssets(create_physical_asset(db, Head(ledgers)).db, Tail(ledgers))

InitialDB == WithAssets(WithFunds(WithAccounts(EmptyDB, InitialAccounts), InitialFunds),
                        InitialAssets)

(* A step is a request whose outcome stays within the bounds of the model *)
Bounded(db) ==
  /\ \A a \in DOMAIN db.accounts : Abs(db.accounts[a].balance) <= MaxBalance
  /\ db.nextTxId <= MaxTxId + 1

Do(op, r, info) ==
  /\ Bounded(r.db)
  /\ Commit(r)
  /\ last' = Last(op, r, info)
  /\ UNCHANGED sessions

(* The same with the bounds of the caller: the largest balance and the     *)
(* largest key of each table                                               *)
Limits(balance, tx, mf, asset) ==
  [balance |-> balance, tx |-> tx, mf |-> mf, asset |-> asset]

Within(db, lim) ==
  /\ \A a \in DOMAIN db.accounts : Abs(db.accounts[a].balance) <= lim.balance
  /\ db.nextTxId <= lim.tx + 1
  /\ db.nextMfId <= lim.mf + 1
  /\ db.nextAssetTxId <= lim.asset + 1

DoUpTo(lim, op, r, info) ==
  /\ Within(r.db, lim)
  /\ Commit(r)
  /\ last' = Last(op, r, info)
  /\ UNCHANGED sessions

---------------------------------------------------------------------------
(* The request handlers.  Each takes the sets its inputs are drawn from. *)

(* account_router.create_account *)
CreateAccount(Names, Types, Groups, Openings, Parents) ==
  \E name \in Names, type \in Types, is_group \in Groups,
     opening \in Openings, parent \in Parents :
    Do("create_account", create_account(DB, 1, name, type, is_group, opening, parent), NoInfo)

(* account_router.update_account *)
UpdateAccount(Accounts, Openings, Parents) ==
  \E account_id \in Accounts, opening \in Openings, parent \in Parents :
    Do("update_account", update_account(DB, account_id, opening, parent),
       [account_id |-> account_id, opening |-> opening])

(* transaction_router.add_income_transaction *)
add_income_transaction(db, t) ==
  IF t.type # "income" THEN Fail(db, "bad_request")
  ELSE IF t.credit <= 0 \/ t.debit # 0 THEN Fail(db, "bad_request")
  ELSE create_transaction(db, t)

(* transaction_router.add_expense_transaction *)
add_expense_transaction(db, t) ==
  IF t.type # "expense" THEN Fail(db, "bad_request")
  ELSE IF t.credit # 0 THEN Fail(db, "bad_request")
  ELSE create_transaction(db, t)

SplitMismatch(t) ==
  /\ t.is_split
  /\ \/ t.type = "income" /\ SplitCredits(t.splits) # t.credit
     \/ t.type = "expense" /\ SplitDebits(t.splits) # t.debit

AddIncomeTransaction(Accounts, Credits, Splits, Tags) ==
  /\ nextTxId <= MaxTxId
  /\ \E account_id \in Accounts, credit \in Credits, is_split \in BOOLEAN,
     splits \in Splits, tagNames \in Tags :
    LET t == TransactionCreate(account_id, "income", credit, 0, is_split, splits,
                               tagNames, FALSE, None, "", FALSE)
    IN Do("create_transaction", add_income_transaction(DB, t),
          [account_id |-> account_id, is_split |-> is_split,
           given |-> splits # <<>>, mismatch |-> SplitMismatch(t),
           before |-> IF account_id \in DOMAIN accounts
                      THEN accounts[account_id].balance ELSE 0])

AddExpenseTransaction(Accounts, Debits, Splits, Tags) ==
  /\ nextTxId <= MaxTxId
  /\ \E account_id \in Accounts, debit \in Debits, is_split \in BOOLEAN,
     splits \in Splits, tagNames \in Tags :
    LET t == TransactionCreate(account_id, "expense", 0, debit, is_split, splits,
                               tagNames, FALSE, None, "", FALSE)
    IN Do("create_transaction", add_expense_transaction(DB, t),
          [account_id |-> account_id, is_split |-> is_split,
           given |-> splits # <<>>, mismatch |-> SplitMismatch(t),
           before |-> IF account_id \in DOMAIN accounts
                      THEN accounts[account_id].balance ELSE 0])

(* transaction_router.add_transfer_transaction *)
AddTransferTransaction(Accounts, SourceAmounts, DestinationAmounts, Tags) ==
  /\ nextTxId <= MaxTxId
  /\ \E user_id \in Users, source \in Accounts, destination \in Accounts,
     source_amount \in SourceAmounts, destination_amount \in DestinationAmounts,
     tagNames \in Tags :
    Do("create_transfer",
       create_transfer_transaction(DB, user_id, source, destination, source_amount,
                                   destination_amount, tagNames),
       [source |-> source, destination |-> destination, accounts |-> accounts])

Given(patch) == {f \in DOMAIN patch : patch[f] # Absent}

(* A patch that changes no field value: every field it carries has the     *)
(* value the row stores                                                    *)
IsNoOp(row, patch) ==
  /\ patch.account_id \in {Absent, Some(row.account_id)}
  /\ patch.credit \in {Absent, Some(row.credit)}
  /\ patch.debit \in {Absent, Some(row.debit)}
  /\ patch.is_split \in {Absent, Some(row.is_split)}
  /\ patch.splits \in {Absent, Some(row.splits)}
  /\ patch.tags = Absent

(* Who calls a /ledger/{ledger_id}/... endpoint, as <<user_id, ledger_id>>:  *)
(* the owner on a ledger of theirs, the other user on a ledger of theirs,  *)
(* and a user on a ledger of the other user                                *)
Callers == {<<1, 1>>, <<2, 3>>, <<1, 3>>}
LedgerCallers == {<<1, 1>>, <<2, 3>>}

(* transaction_router.update_transaction *)
update_transaction_endpoint(db, ledger_id, transaction_id, patch, user_id) ==
  IF LedgerUser(ledger_id) # user_id THEN Fail(db, "ledger_not_found")
  ELSE update_transaction(db, transaction_id, patch, user_id)

UpdateTransaction(Who, Patches) ==
  \E caller \in Who, transaction_id \in DOMAIN transactions, patch \in Patches :
    LET user_id == caller[1]
        ledger_id == caller[2]
    IN
    Do("update_transaction",
       update_transaction_endpoint(DB, ledger_id, transaction_id, patch, user_id),
       [account_id |-> transactions[transaction_id].account_id,
        noop |-> IsNoOp(transactions[transaction_id], patch),
        transaction_id |-> transaction_id, patch |-> patch])

(* transaction_router.delete_transaction *)
delete_transaction_endpoint(db, ledger_id, transaction_id, user_id, order) ==
  IF LedgerUser(ledger_id) # user_id THEN Fail(db, "ledger_not_found")
  ELSE delete_transaction(db, transaction_id, user_id, order)

DeleteTransaction(Who) ==
  \E caller \in Who, transaction_id \in DOMAIN transactions :
    LET user_id == caller[1]
        ledger_id == caller[2]
    IN
    \E order \in Orderings(TransferRows(DB, transactions[transaction_id].transfer_id)) :
    Do("delete_transaction",
       delete_transaction_endpoint(DB, ledger_id, transaction_id, user_id, order),
       [transaction_id |-> transaction_id,
        transfer_id |-> transactions[transaction_id].transfer_id,
        user_id |-> user_id, ledger_id |-> ledger_id,
        after_transfer |-> (last.op = "create_transfer" /\ last.ok)])

(* mutual_funds_router.buy_mutual_fund *)
buy_mutual_fund(db, ledger_id, d, user_id) ==
  IF LedgerUser(ledger_id) # user_id THEN Fail(db, "ledger_not_found")
  ELSE IF d.transaction_type # "buy" THEN Fail(db, "bad_request")
  ELSE create_mf_transaction(db, ledger_id, d, TRUE)

(* mutual_funds_router.sell_mutual_fund *)
sell_mutual_fund(db, ledger_id, d, user_id) ==
  IF LedgerUser(ledger_id) # user_id THEN Fail(db, "ledger_not_found")
  ELSE IF d.transaction_type # "sell" THEN Fail(db, "bad_request")
  ELSE create_mf_transaction(db, ledger_id, d, TRUE)

MfSwitchCreate(source_mutual_fund_id, target_mutual_fund_id, source_units, source_amount, target_units, target_amount) ==
  [source_mutual_fund_id |-> source_mutual_fund_id,
   target_mutual_fund_id |-> target_mutual_fund_id,
   source_units |-> source_units, source_amount |-> source_amount,
   target_units |-> target_units, target_amount |-> target_amount]

(* mutual_funds_router.switch_mutual_fund_units: four commits in a row *)
switch_mutual_fund_units(db, ledger_id, switch_data, user_id, amount_nullable) ==
  LET source == switch_data.source_mutual_fund_id
      target == switch_data.target_mutual_fund_id
      source_nav == <<switch_data.source_amount, switch_data.source_units>>
      target_nav == <<switch_data.target_amount, switch_data.target_units>>
      r1 == create_mf_transaction(db, ledger_id,
              MfTransactionCreate(source, "switch_out", switch_data.source_units, source_nav,
                                  switch_data.source_amount, 0, None, None, target, None),
              amount_nullable)
      r2 == create_mf_transaction(r1.db, ledger_id,
              MfTransactionCreate(target, "switch_in", switch_data.target_units, target_nav,
                                  switch_data.target_amount, 0, None, None, source,
                                  switch_data.target_amount),
              amount_nullable)
      r3 == update_mf_transaction_linked_id(r2.db, r1.id, r2.id)
      r4 == update_mf_transaction_linked_id(r3.db, r2.id, r1.id)
  IN IF LedgerUser(ledger_id) # user_id THEN Fail(db, "ledger_not_found")
     ELSE IF source \notin DOMAIN db.funds \/ db.funds[source].ledger_id # ledger_id
     THEN Fail(db, "source_not_found")
     ELSE IF target \notin DOMAIN db.funds \/ db.funds[target].ledger_id # ledger_id
     THEN Fail(db, "target_not_found")
     ELSE IF source = target THEN Fail(db, "same_fund")
     ELSE IF r1.err # "" THEN r1
     ELSE IF r2.err # "" THEN r2
     ELSE IF r3.err # "" THEN r3
     ELSE IF r4.err # "" THEN r4
     ELSE Ok(r4.db, r1.id)

(* mutual_funds_router.delete_mf_transaction_endpoint *)
delete_mf_transaction_endpoint(db, ledger_id, transaction_id, user_id) ==
  IF LedgerUser(ledger_id) # user_id THEN Fail(db, "ledger_not_found")
  ELSE IF transaction_id \notin DOMAIN db.mfTransactions
          \/ db.mfTransactions[transaction_id].ledger_id # ledger_id
  THEN Fail(db, "mf_transaction_not_found")
  ELSE delete_mf_transaction(db, transaction_id)

(* What the last requests were, for the statement about two purchases in a *)
(* row: n successful purchases without charges, the first of them into a   *)
(* fund that held no units                                                 *)
NoChain == [n |-> 0, fund |-> None, u1 |-> 0, c1 |-> 0, u2 |-> 0, c2 |-> 0]

ChainAfterBuy(ok, fund, units, amount, other_charges) ==
  IF ~ok \/ other_charges # 0 THEN NoChain
  ELSE IF funds[fund].total_units = 0
  THEN [NoChain EXCEPT !.n = 1, !.fund = fund, !.u1 = units, !.c1 = amount]
  ELSE IF last.op = "mf_buy" /\ last.info.chain.n = 1 /\ last.info.chain.fund = fund
  THEN [last.info.chain EXCEPT !.n = 2, !.u2 = units, !.c2 = amount]
  ELSE NoChain

(* The two purchases a redemption of the units of the first follows *)
ChainBeforeSell(fund, units) ==
  IF /\ last.op = "mf_buy"
     /\ last.info.chain.n = 2
     /\ last.info.chain.fund = fund
     /\ last.info.chain.u1 = units
  THEN last.info.chain
  ELSE NoChain

(* The fund and the account as a purchase or redemption finds them *)
Before(fund, account_id) == [fund |-> funds[fund], account |-> accounts[account_id]]

Oversold(fund, units) == fund \in DOMAIN funds /\ units > funds[fund].total_units

BuyMutualFund(Who, Funds, Accounts, Units, Amounts, Charges, lim) ==
  /\ nextTxId <= lim.tx
  /\ nextMfId <= lim.mf
  /\ \E caller \in Who, fund \in Funds, account_id \in Accounts, units \in Units,
        amount \in Amounts, charges \in Charges :
       LET d == MfTransactionCreate(fund, "buy", units, Absent, amount, charges[1],
                                    charges[2], account_id, None, None)
           r == buy_mutual_fund(DB, caller[2], d, caller[1])
       IN DoUpTo(lim, "mf_buy", r,
                 [fund |-> fund, account_id |-> account_id, units |-> units,
                  chain |-> ChainAfterBuy(r.err = "", fund, units, amount, charges[1]),
                  before |-> Before(fund, account_id),
                  other_charges |-> charges[1], expense_category_id |-> charges[2]])

SellMutualFund(Who, Funds, Accounts, Units, Amounts, Charges, lim) ==
  /\ nextTxId <= lim.tx
  /\ nextMfId <= lim.mf
  /\ \E caller \in Who, fund \in Funds, account_id \in Accounts, units \in Units,
        amount \in Amounts, charges \in Charges :
       LET d == MfTransactionCreate(fund, "sell", units, Absent, amount, charges[1],
                                    charges[2], account_id, None, None)
       IN DoUpTo(lim, "mf_sell", sell_mutual_fund(DB, caller[2], d, caller[1]),
                 [fund |-> fund, account_id |-> account_id, units |-> units,
                  oversold |-> Oversold(fund, units),
                  chain |-> ChainBeforeSell(fund, units),
                  before |-> Before(fund, account_id),
                  other_charges |-> charges[1], expense_category_id |-> charges[2]])

SwitchMutualFundUnits(Who, Funds, Units, Amounts, Nullable, lim) ==
  /\ nextMfId < lim.mf
  /\ \E caller \in Who, source \in Funds, target \in Funds, source_units \in Units,
        source_amount \in Amounts, target_units \in Units, target_amount \in Amounts,
        amount_nullable \in Nullable :
       DoUpTo(lim, "mf_switch",
              switch_mutual_fund_units(DB, caller[2],
                 MfSwitchCreate(source, target, source_units, source_amount,
                                target_units, target_amount),
                 caller[1], amount_nullable),
              [fund |-> source, target |-> target, units |-> source_units,
               oversold |-> Oversold(source, source_units), before |-> funds])

DeleteMfTransaction(Who, lim) ==
  \E caller \in Who, transaction_id \in DOMAIN mfTransactions :
    DoUpTo(lim, "mf_delete",
           delete_mf_transaction_endpoint(DB, caller[2], transaction_id, caller[1]),
           [fund |-> mfTransactions[transaction_id].mutual_fund_id,
            deleted |-> transaction_id,
            type |-> mfTransactions[transaction_id].transaction_type,
            linked |-> mfTransactions[transaction_id].linked_transaction_id])

(* physical_assets_router.buy_asset *)
buy_asset(db, ledger_id, d, user_id) ==
  IF LedgerUser(ledger_id) # user_id THEN Fail(db, "ledger_not_found")
  ELSE IF d.transaction_type # "buy" THEN Fail(db, "bad_request")
  ELSE create_asset_transaction(db, ledger_id, d)

(* physical_assets_router.sell_asset *)
sell_asset(db, ledger_id, d, user_id) ==
  IF LedgerUser(ledger_id) # user_id THEN Fail(db, "ledger_not_found")
  ELSE IF d.transaction_type # "sell" THEN Fail(db, "bad_request")
  ELSE create_asset_transaction(db, ledger_id, d)

(* physical_assets_router.delete_asset_transaction_endpoint *)
delete_asset_transaction_endpoint(db, ledger_id, asset_transaction_id, user_id) ==
  IF LedgerUser(ledger_id) # user_id THEN Fail(db, "ledger_not_found")
  ELSE IF asset_transaction_id \notin DOMAIN db.assetTransactions
          \/ db.assetTransactions[asset_transaction_id].ledger_id # ledger_id
  THEN Fail(db, "asset_transaction_not_found")
  ELSE delete_asset_transaction(db, asset_transaction_id)

BuyAsset(Who, Assets, Accounts, Quantities, Prices, Dates, lim) ==
  /\ nextTxId <= lim.tx
  /\ nextAssetTxId <= lim.asset
  /\ \E caller \in Who, asset \in Assets, account_id \in Accounts,
        quantity \in Quantities, price_per_unit \in Prices, transaction_date \in Dates :
       DoUpTo(lim, "asset_buy",
              buy_asset(DB, caller[2],
                        AssetTransactionCreate(asset, "buy", quantity, price_per_unit,
                                               account_id, transaction_date),
                        caller[1]),
              [asset |-> asset, account_id |-> account_id, quantity |-> quantity])

SellAsset(Who, Assets, Accounts, Quantities, Prices, Dates, lim) ==
  /\ nextTxId <= lim.tx
  /\ nextAssetTxId <= lim.asset
  /\ \E caller \in Who, asset \in Assets, account_id \in Accounts,
        quantity \in Quantities, price_per_unit \in Prices, transaction_date \in Dates :
       DoUpTo(lim, "asset_sell",
              sell_asset(DB, caller[2],
                         AssetTransactionCreate(asset, "sell", quantity, price_per_unit,
                                                account_id, transaction_date),
                         caller[1]),
              [asset |-> asset, account_id |-> account_id, quantity |-> quantity,
               oversold |-> (asset \in DOMAIN assets
                             /\ quantity > assets[asset].total_quantity)])

DeleteAssetTransaction(Who, lim) ==
  \E caller \in Who, asset_transaction_id \in DOMAIN assetTransactions :
    DoUpTo(lim, "asset_delete",
           delete_asset_transaction_endpoint(DB, caller[2], asset_transaction_id, caller[1]),
           [asset |-> assetTransactions[asset_transaction_id].physical_asset_id,
            deleted |-> asset_transaction_id])

---------------------------------------------------------------------------
Init ==
  /\ accounts = InitialDB.accounts
  /\ transactions = <<>>
  /\ tags = {}
  /\ nextTxId = 1
  /\ funds = InitialDB.funds
  /\ mfTransactions = <<>>
  /\ nextMfId = 1
  /\ assets = InitialDB.assets
  /\ assetTransactions = <<>>
  /\ nextAssetTxId = 1
  /\ last = [op |-> "init", ok |-> TRUE, err |-> "", id |-> None, info |-> NoInfo]
  /\ sessions = NoSessions

---------------------------------------------------------------------------
(* Income, expense, update and delete on the accounts of one ledger *)

LedgerAccounts == {Cash, Card}
LedgerAmounts == 1..MaxAmount
IncomeSplits == {<<>>, <<Split(1, 0)>>, <<Split(1, 0), Split(1, 0)>>}
ExpenseSplits == {<<>>, <<Split(0, 1)>>}
NoTags == {<<>>}

LedgerPatches ==
  {NoPatch,
   [NoPatch EXCEPT !.splits = Some(<<Split(1, 0)>>)],
   [NoPatch EXCEPT !.is_split = Some(TRUE)]}
  \cup {[NoPatch EXCEPT !.credit = Some(x)] : x \in LedgerAmounts}

LedgerIncome == AddIncomeTransaction(LedgerAccounts, LedgerAmounts, IncomeSplits, NoTags)
LedgerExpense == AddExpenseTransaction(LedgerAccounts, LedgerAmounts, ExpenseSplits, NoTags)
LedgerUpdate == UpdateTransaction(LedgerCallers, LedgerPatches)
LedgerDelete == DeleteTransaction(LedgerCallers)

NextLedger ==
  \/ LedgerIncome
  \/ LedgerExpense
  \/ LedgerUpdate
  \/ LedgerDelete

SpecLedger == Init /\ [][NextLedger]_vars

---------------------------------------------------------------------------
(* Claims about income, expense, update and delete *)

Balances(accts) ==
  [a \in DOMAIN accts |-> <<accts[a].balance, accts[a].net_balance>>]

(* C2: createTransaction with is_split set and splits whose sum differs    *)
(* from the transaction's credit (income) or debit (expense) fails, and    *)
(* after the failure there is no Transaction row for the request and the   *)
(* balances of the account are what they were before the call.             *)
C2_MismatchRejectedAtomically ==
  [][(last'.op = "create_transaction" /\ last'.info.mismatch /\ last'.info.given)
       => /\ ~last'.ok
          /\ transactions' = transactions
          /\ Balances(accounts') = Balances(accounts)]_vars

(* The failing half of C2 does hold: such a request is always rejected *)
C2_MismatchRejected ==
  [][(last'.op = "create_transaction" /\ last'.info.mismatch /\ last'.info.given)
       => ~last'.ok]_vars

(* A rejected split request whose row and balance effect stayed *)
C2_RowLeftBehind ==
  /\ last.op = "create_transaction"
  /\ last.err = "split_mismatch"
  /\ last.id \in DOMAIN transactions
  /\ accounts[last.info.account_id].balance # 0

SplitsMatch(row) ==
  /\ row.credit > 0 => SplitCredits(row.splits) = row.credit
  /\ row.debit > 0 => SplitDebits(row.splits) = row.debit

(* C9: every stored Transaction with is_split = true has splits whose      *)
(* credits sum to its credit (income) or whose debits sum to its debit     *)
(* (expense).                                                              *)
C9_StoredSplitsSumToParent ==
  \A id \in DOMAIN transactions :
    transactions[id].is_split => SplitsMatch(transactions[id])

(* C10: updateTransaction with a patch that changes no field value leaves  *)
(* the owning account's balance and net_balance as they were before the    *)
(* call.                                                                   *)
C10_NoOpUpdateKeepsBalance ==
  [][(last'.op = "update_transaction" /\ last'.info.noop)
       => /\ accounts'[last'.info.account_id].balance
               = accounts[last'.info.account_id].balance
          /\ accounts'[last'.info.account_id].net_balance
               = accounts[last'.info.account_id].net_balance]_vars

(* A no-op update that went through on an account whose balance the        *)
(* transaction had changed                                                 *)
C10_NoOpUpdateDone ==
  /\ last.op = "update_transaction"
  /\ last.ok
  /\ last.info.noop
  /\ accounts[last.info.account_id].balance # 0

---------------------------------------------------------------------------
(* Transfers: createTransfer, updateTransaction and deleteTransaction *)

TransferAccounts == {Cash, Card, Bank, GroupAccount}
TransferAmounts == 1..MaxAmount
DestinationAmounts == {Absent, Some(1)}
TransferTags == {<<>>, <<"food", "food">>}
TransferCallers == {<<1, 1>>, <<2, 3>>}

TransferPatches ==
  {NoPatch, [NoPatch EXCEPT !.credit = Some(1)], [NoPatch EXCEPT !.debit = Some(1)]}

TransferCreate ==
  AddTransferTransaction(TransferAccounts, TransferAmounts, DestinationAmounts, TransferTags)
TransferUpdate == UpdateTransaction(TransferCallers, TransferPatches)
TransferDelete == DeleteTransaction(TransferCallers)

NextTransfer ==
  \/ TransferCreate
  \/ TransferUpdate
  \/ TransferDelete

SpecTransfer == Init /\ [][NextTransfer]_vars

Owner(account_id) == LedgerUser(accounts[account_id].ledger_id)

(* C4: for two distinct non-group accounts of one user and a positive      *)
(* amount, a successful createTransfer followed by deleteTransaction on    *)
(* either leg removes both legs and leaves both accounts' balance and      *)
(* net_balance at their values before the transfer.                        *)
C4_TransferThenDeleteRestores ==
  [][(/\ last.op = "create_transfer" /\ last.ok
      /\ last'.op = "delete_transaction"
      /\ last'.info.transfer_id = last.id
      /\ last'.info.user_id = Owner(last.info.source)
      /\ LedgerUser(last'.info.ledger_id) = last'.info.user_id)
       => /\ last'.ok
          /\ TransferRows([transactions |-> transactions'], last.id) = {}
          /\ Balances(accounts') = Balances(last.info.accounts)]_vars

(* A transfer, between an asset and a liability account or across two      *)
(* ledgers, deleted right after it was made                                *)
C4_TransferDeleted ==
  /\ last.op = "delete_transaction"
  /\ last.ok
  /\ last.info.after_transfer
  /\ last.info.transfer_id # None
  /\ transactions = <<>>

PairedLegs(rows) ==
  \A id \in DOMAIN rows :
    rows[id].is_transfer =>
      LET legs == {x \in DOMAIN rows : rows[x].transfer_id = rows[id].transfer_id}
      IN /\ Cardinality(legs) = 2
         /\ {rows[x].transfer_type : x \in legs} = {"source", "destination"}

(* C8: in every state reachable through createTransfer, updateTransaction  *)
(* and deleteTransaction each transfer_id is carried by exactly two rows,  *)
(* one source and one destination, and a failed createTransfer or a failed *)
(* transfer delete leaves the balances of the accounts unchanged.          *)
C8_TransfersPairedAndAtomic ==
  [][/\ PairedLegs(transactions')
     /\ (last'.op = "create_transfer" /\ ~last'.ok)
          => Balances(accounts') = Balances(accounts)
     /\ (last'.op = "delete_transaction" /\ ~last'.ok)
          => Balances(accounts') = Balances(accounts)]_vars

(* The two halves of C8, each on its own *)
C8_LegsPaired == PairedLegs(transactions)

C8_FailedDeleteKeepsBalances ==
  [][(last'.op = "delete_transaction" /\ ~last'.ok)
       => Balances(accounts') = Balances(accounts)]_vars

---------------------------------------------------------------------------
(* Purchases and redemptions of one mutual fund *)

MaxMfId == 3
MaxUnits == 3
MaxSpend == 9

FundLimits == Limits(MaxSpend, MaxMfId, MaxMfId, 0)
FundCallers == {<<1, 1>>}
FundUnits == {1, MaxUnits}
FundAmounts == {MaxAmount, MaxAmount + 1}
NoCharges == {<<0, None>>}

FundBuy == BuyMutualFund(FundCallers, {1}, {Cash}, FundUnits, FundAmounts, NoCharges, FundLimits)
FundSell == SellMutualFund(FundCallers, {1}, {Cash}, FundUnits, FundAmounts, NoCharges, FundLimits)
FundDelete == DeleteMfTransaction(FundCallers, FundLimits)

NextFund ==
  \/ FundBuy
  \/ FundSell
  \/ FundDelete

SpecFund == Init /\ [][NextFund]_vars

SellKeepsAverage ==
  (/\ last.op = "mf_buy" /\ last.info.chain.n = 2
   /\ last'.op = "mf_sell" /\ last'.ok /\ last'.info.chain.n = 2)
    => /\ funds'[last'.info.fund].average_cost_per_unit
            = funds[last'.info.fund].average_cost_per_unit
       /\ funds'[last'.info.fund].total_units = last.info.chain.u2

(* C6 as stated: from zero units, a buy of u1 units for c1 and a buy of u2  *)
(* units for c2 give average_cost_per_unit = (c1 + c2) / (u1 + u2), at the  *)
(* precision of the column, and total_units = u1 + u2; a sell of u1 units   *)
(* then leaves the average cost as it was and total_units = u2.            *)
C6_AverageIsExactQuotient ==
  [][/\ (last'.op = "mf_buy" /\ last'.info.chain.n = 2)
          => LET ch == last'.info.chain
                 fund == funds'[ch.fund]
             IN /\ fund.average_cost_per_unit
                      = RoundDiv(Fine * (ch.c1 + ch.c2), ch.u1 + ch.u2)
                /\ fund.total_units = ch.u1 + ch.u2
     /\ SellKeepsAverage]_vars

(* C6, amended: the average cost after the two buys is within one unit of  *)
(* the last stored digit (0.0001) of (c1 + c2) / (u1 + u2), total_units is  *)
(* u1 + u2, and a sell of u1 units then leaves the average cost as it was  *)
(* and total_units = u2.                                                   *)
C6_AverageWithinLastDigit ==
  [][/\ (last'.op = "mf_buy" /\ last'.info.chain.n = 2)
          => LET ch == last'.info.chain
                 fund == funds'[ch.fund]
             IN /\ Abs(fund.average_cost_per_unit * (ch.u1 + ch.u2)
                         - Fine * (ch.c1 + ch.c2)) < ch.u1 + ch.u2
                /\ fund.total_units = ch.u1 + ch.u2
     /\ SellKeepsAverage]_vars

(* Two buys whose stored average is not the rounded quotient, followed by  *)
(* a sell of the units of the first                                        *)
C6_SoldAfterTwoBuys ==
  /\ last.op = "mf_sell"
  /\ last.ok
  /\ last.info.chain.n = 2
  /\ funds[last.info.fund].total_units = last.info.chain.u2
  /\ funds[last.info.fund].average_cost_per_unit
        # RoundDiv(Fine * (last.info.chain.c1 + last.info.chain.c2),
                   last.info.chain.u1 + last.info.chain.u2)

---------------------------------------------------------------------------
(* Purchases, sales and deletions on one physical asset *)

MaxAssetTxId == 4
MaxPrice == 2

AssetLimits == Limits(MaxSpend, MaxAssetTxId, 0, MaxAssetTxId)
AssetCallers == {<<1, 1>>}
AssetQuantities == {1}
AssetPrices == 1..MaxPrice
AssetDates == {1, 2}

AssetBuy ==
  BuyAsset(AssetCallers, {1}, {Savings}, AssetQuantities, AssetPrices, AssetDates, AssetLimits)
AssetSell ==
  SellAsset(AssetCallers, {1}, {Savings}, AssetQuantities, AssetPrices, AssetDates, AssetLimits)
AssetDelete == DeleteAssetTransaction(AssetCallers, AssetLimits)

NextAsset ==
  \/ AssetBuy
  \/ AssetSell
  \/ AssetDelete

SpecAsset == Init /\ [][NextAsset]_vars

(* No sell in txs exceeds the quantity held when it comes *)
RECURSIVE NoOversell(_, _)
NoOversell(txs, held) ==
  \/ txs = <<>>
  \/ LET tx == Head(txs)
     IN IF tx.transaction_type = "buy" THEN NoOversell(Tail(txs), held + tx.quantity)
        ELSE tx.quantity <= held /\ NoOversell(Tail(txs), held - tx.quantity)

(* The asset after createAssetTransaction of the rows txs, in their order, *)
(* on the database db                                                      *)
RECURSIVE Created(_, _, _)
Created(txs, db, physical_asset_id) ==
  IF txs = <<>> THEN db.assets[physical_asset_id]
  ELSE LET tx == Head(txs)
           buy == tx.transaction_type = "buy"
       IN Created(Tail(txs),
                  update_asset_quantities_and_costs(db, physical_asset_id,
                     IF buy THEN tx.quantity ELSE -tx.quantity,
                     IF buy THEN tx.total_amount ELSE 0, tx.price_per_unit).db,
                  physical_asset_id)

FreshAsset == create_physical_asset(EmptyDB, 1)

RowsLeft(rows, physical_asset_id) ==
  LET order == RemainingTransactions([assetTransactions |-> rows], physical_asset_id)
  IN [i \in DOMAIN order |-> rows[order[i]]]

(* C5: when no sell of the remaining history exceeds the quantity held at  *)
(* its point, the asset's total_quantity and average_cost_per_unit after   *)
(* deleteAssetTransaction are those of a fresh asset on which the          *)
(* remaining transactions are created in (transaction_date, created_at)    *)
(* order.                                                                  *)
C5_DeleteEqualsRecreation ==
  [][(/\ last'.op = "asset_delete" /\ last'.ok
      /\ NoOversell(RowsLeft(assetTransactions', last'.info.asset), 0))
       => LET recreated == Created(RowsLeft(assetTransactions', last'.info.asset),
                                   FreshAsset.db, FreshAsset.id)
              asset == assets'[last'.info.asset]
          IN /\ asset.total_quantity = recreated.total_quantity
             /\ asset.average_cost_per_unit = recreated.average_cost_per_unit]_vars

(* The quantity alone does come out as recreation gives it *)
C5_DeleteRestoresQuantity ==
  [][(/\ last'.op = "asset_delete" /\ last'.ok
      /\ NoOversell(RowsLeft(assetTransactions', last'.info.asset), 0))
       => assets'[last'.info.asset].total_quantity
            = Created(RowsLeft(assetTransactions', last'.info.asset),
                      FreshAsset.db, FreshAsset.id).total_quantity]_vars

---------------------------------------------------------------------------
(* Disposals: mutual-fund sell and switch, physical-asset sell *)

MaxPositionTxId == 3
MaxPositionRows == 2

PositionLimits == Limits(MaxSpend, MaxPositionTxId, MaxPositionRows + 1, MaxPositionRows)
PositionCallers == {<<1, 1>>}
PositionFunds == {1, 2}
PositionUnits == 1..2
PositionAmounts == {MaxAmount}
DeployedSchemas == BOOLEAN

PositionBuy ==
  BuyMutualFund(PositionCallers, {1}, {Cash}, PositionUnits, PositionAmounts, NoCharges,
                PositionLimits)
PositionSell ==
  SellMutualFund(PositionCallers, {1}, {Cash}, PositionUnits, PositionAmounts, NoCharges,
                 PositionLimits)
PositionSwitch ==
  SwitchMutualFundUnits(PositionCallers, PositionFunds, PositionUnits, PositionAmounts,
                        DeployedSchemas, PositionLimits)
PositionDelete == DeleteMfTransaction(PositionCallers, PositionLimits)
PositionAssetBuy ==
  BuyAsset(PositionCallers, {1}, {Savings}, PositionUnits, {1}, {1}, PositionLimits)
PositionAssetSell ==
  SellAsset(PositionCallers, {1}, {Savings}, PositionUnits, {1}, {1}, PositionLimits)
PositionAssetDelete == DeleteAssetTransaction(PositionCallers, PositionLimits)

NextPosition ==
  \/ PositionBuy
  \/ PositionSell
  \/ PositionSwitch
  \/ PositionDelete
  \/ PositionAssetBuy
  \/ PositionAssetSell
  \/ PositionAssetDelete

SpecPosition == Init /\ [][NextPosition]_vars

Disposals == {"mf_sell", "mf_switch", "asset_sell"}

(* C3: a mutual-fund sell or switch_out of more units than total_units,    *)
(* and a physical-asset sell of more than total_quantity, fails and leaves *)
(* the fund and asset totals, every account balance and the Transaction,   *)
(* MfTransaction and AssetTransaction rows as they were.                   *)
C3_OversellLeavesStateUnmodified ==
  [][(last'.op \in Disposals /\ last'.info.oversold)
       => /\ ~last'.ok
          /\ funds' = funds
          /\ assets' = assets
          /\ Balances(accounts') = Balances(accounts)
          /\ transactions' = transactions
          /\ mfTransactions' = mfTransactions
          /\ assetTransactions' = assetTransactions]_vars

(* What does hold of C3: the oversell fails, and the switch and the asset  *)
(* sell leave everything as it was                                         *)
C3_OversellFails ==
  [][(last'.op \in Disposals /\ last'.info.oversold) => ~last'.ok]_vars

C3_SwitchAndAssetSellUnmodified ==
  [][(last'.op \in {"mf_switch", "asset_sell"} /\ last'.info.oversold)
       => UNCHANGED <<funds, assets, accounts, transactions, mfTransactions,
                      assetTransactions>>]_vars

(* A rejected fund sell whose financial row and balance change stayed *)
C3_OversoldFundSellLeftRow ==
  /\ last.op = "mf_sell"
  /\ last.err = "insufficient_units"
  /\ \E id \in DOMAIN transactions :
        /\ transactions[id].is_mf_transaction
        /\ id \notin ReferencedTransactions(DB)

AverageCostBefore ==
  IF last'.op = "asset_sell" THEN assets[last'.info.asset].average_cost_per_unit
  ELSE funds[last'.info.fund].average_cost_per_unit

AverageCostAfter ==
  IF last'.op = "asset_sell" THEN assets'[last'.info.asset].average_cost_per_unit
  ELSE funds'[last'.info.fund].average_cost_per_unit

QuantityAfter ==
  IF last'.op = "asset_sell" THEN assets'[last'.info.asset].total_quantity
  ELSE funds'[last'.info.fund].total_units

(* C7 as stated: every successful mutual-fund sell or switch_out and every *)
(* successful physical-asset sell, one that disposes of all remaining      *)
(* units included, leaves average_cost_per_unit at its value before the    *)
(* disposal.                                                               *)
C7_DisposalKeepsAverage ==
  [][(last'.op \in Disposals /\ last'.ok) => AverageCostAfter = AverageCostBefore]_vars

(* C7, amended: a successful disposal that leaves units in the position    *)
(* leaves average_cost_per_unit at its value before the disposal; one that *)
(* disposes of all remaining units sets it to 0.                           *)
C7_DisposalKeepsAverageUnlessEmptied ==
  [][(last'.op \in Disposals /\ last'.ok)
       => AverageCostAfter = IF QuantityAfter > 0 THEN AverageCostBefore ELSE 0]_vars

(* A sale of all the units of a fund that had an average cost, and a sale  *)
(* of all of an asset                                                      *)
C7_SoldEverything ==
  /\ last.op \in {"mf_sell", "asset_sell"}
  /\ last.ok
  /\ IF last.op = "mf_sell"
     THEN /\ funds[last.info.fund].total_units = 0
          /\ funds[last.info.fund].average_cost_per_unit = 0
          /\ mfTransactions[last.id].cost_basis_of_units_sold > 0
     ELSE /\ assets[last.info.asset].total_quantity = 0
          /\ assets[last.info.asset].average_cost_per_unit = 0

---------------------------------------------------------------------------
(* Every kind of request, on the accounts, funds and asset of one user *)

MainLimits == Limits(MaxBalance, MaxTxId, MaxTxId, 1)
MainCallers == {<<1, 1>>}
MainCharges == {<<0, None>>, <<1, 1>>}
MainPatches == {[NoPatch EXCEPT !.credit = Some(MaxAmount)]}

NewAccount == CreateAccount({"cash", "new"}, {"liability"}, {FALSE}, {Some(1)}, {None})
ChangeAccount == UpdateAccount({Cash}, {Some(2)}, {None, GroupAccount})
Income == AddIncomeTransaction({Card}, {1}, {<<>>}, NoTags)
Expense == AddExpenseTransaction({Cash}, {1}, {<<>>}, NoTags)
Transfer == AddTransferTransaction({Cash, Card}, {1}, {Absent}, NoTags)
Update == UpdateTransaction(MainCallers, MainPatches)
Delete == DeleteTransaction(MainCallers)
MfBuy == BuyMutualFund(MainCallers, {1}, {Cash}, {1}, {1}, MainCharges, MainLimits)
MfSell == SellMutualFund(MainCallers, {1}, {Card}, {1}, {1}, NoCharges, MainLimits)
MfSwitch == SwitchMutualFundUnits(MainCallers, {1, 2}, {1}, {1}, DeployedSchemas, MainLimits)
MfDelete == DeleteMfTransaction(MainCallers, MainLimits)
PhysicalBuy == BuyAsset(MainCallers, {1}, {Savings}, {1}, {1}, {1}, MainLimits)
PhysicalSell == SellAsset(MainCallers, {1}, {Card}, {1}, {1}, {1}, MainLimits)
PhysicalDelete == DeleteAssetTransaction(MainCallers, MainLimits)

Next ==
  \/ NewAccount
  \/ ChangeAccount
  \/ Income
  \/ Expense
  \/ Transfer
  \/ Update
  \/ Delete
  \/ MfBuy
  \/ MfSell
  \/ MfSwitch
  \/ MfDelete
  \/ PhysicalBuy
  \/ PhysicalSell
  \/ PhysicalDelete

Spec == Init /\ [][Next]_vars

---------------------------------------------------------------------------
(* Postings: what the income and expense endpoints accept, then deletion *)

PostingAccounts == {Cash, Card}
PostingCredits == 0..MaxAmount
PostingDebits == -1..MaxAmount
PostingCallers == {<<1, 1>>}

PostingIncome == AddIncomeTransaction(PostingAccounts, PostingCredits, {<<>>}, NoTags)
PostingExpense == AddExpenseTransaction(PostingAccounts, PostingDebits, {<<>>}, NoTags)
PostingDelete == DeleteTransaction(PostingCallers)

NextPosting ==
  \/ PostingIncome
  \/ PostingExpense
  \/ PostingDelete

SpecPosting == Init /\ [][NextPosting]_vars

(* The request before was an accepted income or expense and this one is   *)
(* the deletion of the transaction it made                                *)
DeletesLastPosting ==
  /\ last.op = "create_transaction"
  /\ last.ok
  /\ last'.op = "delete_transaction"
  /\ last'.info.transaction_id = last.id

(* C11: for every income or expense transaction the endpoints accept on a  *)
(* leaf account of either type, creating it and then deleting it succeeds  *)
(* and restores the balance of the account to its value before the         *)
(* creation.                                                               *)
C11_CreateThenDeleteRestores ==
  [][DeletesLastPosting
       => /\ last'.ok
          /\ last.id \notin DOMAIN transactions'
          /\ accounts'[last.info.account_id].balance = last.info.before]_vars

(* What does hold of C11: with a positive amount the deletion succeeds and *)
(* restores the balance                                                    *)
C11_PositiveAmountRestores ==
  [][(DeletesLastPosting
       /\ (transactions[last.id].credit > 0 \/ transactions[last.id].debit > 0))
       => /\ last'.ok
          /\ last.id \notin DOMAIN transactions'
          /\ accounts'[last.info.account_id].balance = last.info.before]_vars

(* An accepted expense of debit 0 that deleteTransaction refuses to delete *)
C11_ZeroExpenseNotDeletable ==
  /\ last.op = "delete_transaction"
  /\ last.err = "invalid_transaction"
  /\ last.info.transaction_id \in DOMAIN transactions
  /\ transactions[last.info.transaction_id].debit = 0
  /\ transactions[last.info.transaction_id].credit = 0

---------------------------------------------------------------------------
(* Requests that name a group account *)

GroupLimits == Limits(MaxBalance, MaxTxId, 1, 1)
GroupCallers == {<<1, 1>>}
GroupTargets == {Cash, GroupAccount}
GroupPatches ==
  {[NoPatch EXCEPT !.account_id = Some(GroupAccount)],
   [NoPatch EXCEPT !.account_id = Some(Card)],
   [NoPatch EXCEPT !.credit = Some(MaxAmount)]}

GroupIncome == AddIncomeTransaction(GroupTargets, {1}, {<<>>}, NoTags)
GroupTransfer == AddTransferTransaction({Cash, Card, GroupAccount}, {1}, {Absent}, NoTags)
GroupMfBuy == BuyMutualFund(GroupCallers, {1}, GroupTargets, {1}, {1}, NoCharges, GroupLimits)
GroupAssetBuy == BuyAsset(GroupCallers, {1}, GroupTargets, {1}, {1}, {1}, GroupLimits)
GroupUpdate == UpdateTransaction(GroupCallers, GroupPatches)

NextGroup ==
  \/ GroupIncome
  \/ GroupTransfer
  \/ GroupMfBuy
  \/ GroupAssetBuy
  \/ GroupUpdate

SpecGroup == Init /\ [][NextGroup]_vars

NoRowOnGroupAccount(rows, accts) ==
  \A id \in DOMAIN rows : ~accts[rows[id].account_id].is_group

NoEffectOnGroupAccount(accts) ==
  \A a \in DOMAIN accts : accts[a].is_group => accts[a].balance = 0

(* The request just made is a create that names a group account *)
CreatedOnGroupAccount ==
  \/ /\ last'.op \in {"create_transaction", "mf_buy", "asset_buy"}
     /\ accounts[last'.info.account_id].is_group
  \/ /\ last'.op = "create_transfer"
     /\ \/ accounts[last'.info.source].is_group
        \/ accounts[last'.info.destination].is_group

DatabaseUnchanged ==
  UNCHANGED <<accounts, transactions, tags, nextTxId, funds, mfTransactions, nextMfId,
              assets, assetTransactions, nextAssetTxId>>

(* C12: no Transaction row belongs to a group account: createTransaction,  *)
(* createTransfer, createMfTransaction and createAssetTransaction against  *)
(* a group account fail without changing state, and updateTransaction with *)
(* a patch that sets account_id to a group account moves neither the row   *)
(* nor a balance effect onto it.                                           *)
C12_NoTransactionOnGroupAccount ==
  [][/\ NoRowOnGroupAccount(transactions', accounts')
     /\ NoEffectOnGroupAccount(accounts')
     /\ CreatedOnGroupAccount => (~last'.ok /\ DatabaseUnchanged)]_vars

(* What does hold of C12: the four creates reject a group account and      *)
(* change nothing                                                          *)
C12_CreatesRejectGroupAccount ==
  [][CreatedOnGroupAccount => (~last'.ok /\ DatabaseUnchanged)]_vars

(* An update has moved a transaction and its effect onto a group account *)
C12_RowMovedToGroupAccount ==
  /\ last.op = "update_transaction"
  /\ last.ok
  /\ transactions[last.id].account_id = GroupAccount
  /\ accounts[GroupAccount].balance # 0

---------------------------------------------------------------------------
(* Switches between two funds, and their deletion *)

MaxSwitchRows == 4
MaxHolding == 3

SwitchLimits == Limits(MaxSpend, MaxTxId, MaxSwitchRows, 0)
SwitchCallers == {<<1, 1>>}
SwitchFunds == {1, 2}
SwitchUnits == {1}
SwitchAmounts == {MaxAmount}

SwitchBuy ==
  BuyMutualFund(SwitchCallers, {1}, {Cash}, SwitchUnits, SwitchAmounts, NoCharges,
                SwitchLimits)
SwitchSell ==
  SellMutualFund(SwitchCallers, {2}, {Cash}, SwitchUnits, SwitchAmounts, NoCharges,
                 SwitchLimits)
SwitchCreate ==
  SwitchMutualFundUnits(SwitchCallers, SwitchFunds, SwitchUnits, SwitchAmounts,
                        DeployedSchemas, SwitchLimits)
SwitchDelete ==
  /\ \A f \in DOMAIN funds : funds[f].total_units <= MaxHolding
  /\ DeleteMfTransaction(SwitchCallers, SwitchLimits)

NextSwitch ==
  \/ SwitchBuy
  \/ SwitchSell
  \/ SwitchCreate
  \/ SwitchDelete

SpecSwitch == Init /\ [][NextSwitch]_vars

SwitchTypes == {"switch_out", "switch_in"}

(* The columns of the funds that a switch and its deletion write *)
Positions(fs) ==
  [f \in DOMAIN fs |->
     <<fs[f].total_units, fs[f].average_cost_per_unit, fs[f].total_realized_gain,
       fs[f].total_invested_cash>>]

(* This request is the deletion of a leg of a switch *)
DeletesSwitchLeg == last'.op = "mf_delete" /\ last'.info.type \in SwitchTypes

(* Both legs are removed; when the switch was the request before, the      *)
(* funds are what they were before it                                      *)
SwitchUndone ==
  /\ last'.ok
  /\ last'.info.deleted \notin DOMAIN mfTransactions'
  /\ last'.info.linked \notin DOMAIN mfTransactions'
  /\ (last.op = "mf_switch" /\ last.ok) => Positions(funds') = Positions(last.info.before)

C13_SuccessfulDeleteUndoesSwitch ==
  [][(DeletesSwitchLeg /\ last'.ok) => SwitchUndone]_vars

(* A failed deletion of a switch_out leg that gave the units back to the   *)
(* source fund and left both legs in place                                 *)
C13_FailedDeleteReversedSource ==
  /\ last.op = "mf_delete"
  /\ ~last.ok
  /\ last.info.type = "switch_out"
  /\ {last.info.deleted, last.info.linked} \subseteq DOMAIN mfTransactions
  /\ funds[last.info.fund].total_units > 0

---------------------------------------------------------------------------
(* A purchase or redemption of fund units, with or without charges, and    *)
(* its deletion                                                            *)

MaxTradeTxId == 4

TradeLimits == Limits(MaxSpend, MaxTradeTxId, MaxMfId, 0)
TradeCallers == {<<1, 1>>}
TradeAccounts == {Cash, Card}
TradeUnits == {1, MaxUnits}
TradeAmounts == {MaxAmount}
TradeCharges == {<<0, None>>, <<1, 1>>, <<1, 2>>, <<1, 3>>, <<1, None>>}

TradeBuy ==
  BuyMutualFund(TradeCallers, {1}, TradeAccounts, TradeUnits, TradeAmounts, TradeCharges,
                TradeLimits)
TradeSell ==
  SellMutualFund(TradeCallers, {1}, TradeAccounts, TradeUnits, TradeAmounts, TradeCharges,
                 TradeLimits)
TradeDelete == DeleteMfTransaction(TradeCallers, TradeLimits)

NextTrade ==
  \/ TradeBuy
  \/ TradeSell
  \/ TradeDelete

SpecTrade == Init /\ [][NextTrade]_vars

(* The request before was a successful buy or sell and this one is the     *)
(* deletion of the MfTransaction it made                                   *)
DeletesLastTrade ==
  /\ last.op \in {"mf_buy", "mf_sell"}
  /\ last.ok
  /\ last'.op = "mf_delete"
  /\ last'.info.deleted = last.id

TradeRowsRemoved ==
  /\ last'.ok
  /\ last.id \notin DOMAIN mfTransactions'
  /\ mfTransactions[last.id].financial_transaction_id \notin DOMAIN transactions'
  /\ mfTransactions[last.id].linked_charge_transaction_id \notin DOMAIN transactions'

TradeAccountRestored ==
  /\ accounts'[last.info.account_id].balance = last.info.before.account.balance
  /\ accounts'[last.info.account_id].net_balance = last.info.before.account.net_balance

TradeFundRestored ==
  LET fund == funds'[last.info.fund]
      before == last.info.before.fund
  IN /\ fund.total_units = before.total_units
     /\ fund.average_cost_per_unit = before.average_cost_per_unit
     /\ fund.total_realized_gain = before.total_realized_gain
     /\ fund.total_invested_cash = before.total_invested_cash
     /\ fund.external_cash_invested = before.external_cash_invested

(* C14: createMfTransaction of a buy or sell followed by                   *)
(* deleteMfTransaction of it restores the fund's total_units,              *)
(* average_cost_per_unit, total_realized_gain, total_invested_cash and     *)
(* external_cash_invested and the account's balance and net_balance, and   *)
(* removes the main and the charges financial Transaction.                 *)
C14_TradeThenDeleteRestores ==
  [][DeletesLastTrade
       => (TradeRowsRemoved /\ TradeAccountRestored /\ TradeFundRestored)]_vars

(* What does hold of C14: the rows go, the account and the units held are  *)
(* as before                                                               *)
C14_TradeThenDeleteRestoresAccount ==
  [][DeletesLastTrade
       => /\ TradeRowsRemoved
          /\ TradeAccountRestored
          /\ funds'[last.info.fund].total_units = last.info.before.fund.total_units]_vars

(* A deleted redemption after which the average cost of the fund is not    *)
(* what it was before the redemption                                       *)
C14_AverageNotRestored ==
  /\ last.op = "mf_delete"
  /\ last.ok
  /\ last.info.type = "sell"
  /\ funds[last.info.fund].total_units = MaxUnits
  /\ funds[last.info.fund].average_cost_per_unit # RoundDiv(Fine * MaxAmount, MaxUnits)
  /\ Cardinality(DOMAIN mfTransactions) = 1

---------------------------------------------------------------------------
(* Charges of a purchase or redemption and their expense category *)

IsExpenseCategory(category_id, user_id) ==
  /\ category_id \in DOMAIN Categories
  /\ Categories[category_id].user_id = user_id
  /\ Categories[category_id].type = "expense"

(* This request is a buy or sell with charges whose expense_category_id    *)
(* names no expense category of the user                                   *)
ChargesWithoutCategory ==
  /\ last'.op \in {"mf_buy", "mf_sell"}
  /\ last'.info.other_charges > 0
  /\ ~IsExpenseCategory(last'.info.expense_category_id,
                        LedgerUser(funds[last'.info.fund].ledger_id))

(* C15: a buy or sell with other_charges > 0 and an expense_category_id    *)
(* that names no existing expense category of the ledger's user fails, and *)
(* after the failure no financial Transaction has been added and the       *)
(* account balance and the fund are what they were before the call.        *)
C15_InvalidCategoryChangesNothing ==
  [][ChargesWithoutCategory
       => /\ ~last'.ok
          /\ transactions' = transactions
          /\ accounts' = accounts
          /\ funds' = funds]_vars

(* What does hold of C15: the request fails, and the balance and the fund  *)
(* stay as they were                                                       *)
C15_InvalidCategoryRejected ==
  [][ChargesWithoutCategory
       => (~last'.ok /\ accounts' = accounts /\ funds' = funds)]_vars

(* A purchase rejected for its category whose financial Transaction stayed *)
C15_RowLeftByRejectedCharges ==
  /\ last.op = "mf_buy"
  /\ last.err = "invalid_category"
  /\ \E id \in DOMAIN transactions :
        /\ transactions[id].is_mf_transaction
        /\ id \notin ReferencedTransactions(DB)

---------------------------------------------------------------------------
(* Amending a transaction: its amounts, its side and its account *)

AmendAccounts == {Cash, Card}
AmendAmounts == 1..MaxAmount
AmendCallers == {<<1, 1>>}

AmendPatches ==
  {NoPatch, [NoPatch EXCEPT !.credit = Some(0)]}
  \cup {[NoPatch EXCEPT !.credit = Some(x)] : x \in AmendAmounts}
  \cup {[NoPatch EXCEPT !.credit = Some(0), !.debit = Some(x)] : x \in AmendAmounts}
  \cup {[NoPatch EXCEPT !.account_id = Some(a)] : a \in AmendAccounts}
  \cup {[NoPatch EXCEPT !.account_id = Some(a), !.debit = Some(MaxAmount)] : a \in AmendAccounts}

AmendIncome == AddIncomeTransaction(AmendAccounts, AmendAmounts, {<<>>}, NoTags)
AmendExpense == AddExpenseTransaction(AmendAccounts, AmendAmounts, {<<>>}, NoTags)
AmendUpdate == UpdateTransaction(AmendCallers, AmendPatches)

NextAmend ==
  \/ AmendIncome
  \/ AmendExpense
  \/ AmendUpdate

SpecAmend == Init /\ [][NextAmend]_vars

(* The signed effect of a row on its account under the ledger rule *)
LedgerEffect(accts, row) ==
  IF accts[row.account_id].type = "asset"
  THEN row.credit - row.debit
  ELSE row.debit - row.credit

(* The change of every balance a completed update must make: the effect of *)
(* the row as stored before leaves its account, the effect of the row as   *)
(* stored after enters the account it now names                            *)
Rebalanced(accts, old, new) ==
  [a \in DOMAIN accts |->
     accts[a].balance
       - (IF a = old.account_id THEN LedgerEffect(accts, old) ELSE 0)
       + (IF a = new.account_id THEN LedgerEffect(accts, new) ELSE 0)]

(* C16: a completed updateTransaction takes the effect of the stored       *)
(* credit, debit and account_id out of the original account and puts the   *)
(* effect of the new values into the (possibly changed) account exactly    *)
(* once; with the account unchanged,                                       *)
(* balance_after = balance_before - effect(old) + effect(new).             *)
C16_UpdateReversesOldAppliesNew ==
  [][(last'.op = "update_transaction" /\ last'.ok)
       => \A a \in DOMAIN accounts :
             accounts'[a].balance
               = Rebalanced(accounts, transactions[last'.id], transactions'[last'.id])[a]]_vars

(* An expense was moved to the other account, which is of the other type,  *)
(* with the largest amount                                                 *)
C16_MovedAndChanged ==
  /\ last.op = "update_transaction"
  /\ last.ok
  /\ last.info.account_id # transactions[last.id].account_id
  /\ transactions[last.id].debit = MaxAmount
  /\ \E a \in DOMAIN accounts : accounts[a].balance # 0

---------------------------------------------------------------------------
(* Balances against the rows stored on the account *)

RECURSIVE EffectOfRows(_, _, _)
EffectOfRows(accts, rows, ids) ==
  IF ids = {} THEN 0
  ELSE LET id == CHOOSE x \in ids : TRUE
       IN LedgerEffect(accts, rows[id]) + EffectOfRows(accts, rows, ids \ {id})

RowsOf(rows, account_id) == {id \in DOMAIN rows : rows[id].account_id = account_id}

(* C17: in every reachable state the balance of each account is the sum of *)
(* the signed effects, under the ledger rule, of the Transaction rows      *)
(* stored on it, whichever operation created or removed those rows.        *)
C17_BalanceIsSumOfEffects ==
  \A a \in DOMAIN accounts :
     accounts[a].balance = EffectOfRows(accounts, transactions, RowsOf(transactions, a))

(* A completed fund purchase paid from a liability account lowered its     *)
(* balance by the amount its expense row carries as debit                  *)
C17_PurchaseLoweredLiability ==
  /\ last.op = "mf_buy"
  /\ last.ok
  /\ accounts[last.info.account_id].type = "liability"
  /\ RowsOf(transactions, last.info.account_id) # {}
  /\ \A id \in RowsOf(transactions, last.info.account_id) :
        transactions[id].credit = 0 /\ transactions[id].debit > 0
  /\ accounts[last.info.account_id].balance
       = -EffectOfRows(accounts, transactions, RowsOf(transactions, last.info.account_id))

---------------------------------------------------------------------------
(* The two legs of a switch *)

OppositeLeg(type) == IF type = "switch_out" THEN "switch_in" ELSE "switch_out"

(* Row id of mf_transactions is a switch leg whose linked_transaction_id   *)
(* names the opposite leg on the other fund, which points back at it       *)
LinkedBothWays(rows, id) ==
  LET leg == rows[id]
      other == leg.linked_transaction_id
  IN /\ other \in DOMAIN rows
     /\ rows[other].transaction_type = OppositeLeg(leg.transaction_type)
     /\ rows[other].mutual_fund_id # leg.mutual_fund_id
     /\ rows[other].linked_transaction_id = id

SwitchPositions == {"switch_out_stored", "switch_in_stored", "switch_out_linked"}
SwitchInProgress == last.ok /\ last.op \in SwitchPositions

SwitchOutData(switch_data) ==
  MfTransactionCreate(switch_data.source_mutual_fund_id, "switch_out",
                      switch_data.source_units,
                      <<switch_data.source_amount, switch_data.source_units>>,
                      switch_data.source_amount, 0, None, None,
                      switch_data.target_mutual_fund_id, None)

SwitchInData(switch_data) ==
  MfTransactionCreate(switch_data.target_mutual_fund_id, "switch_in",
                      switch_data.target_units,
                      <<switch_data.target_amount, switch_data.target_units>>,
                      switch_data.target_amount, 0, None, None,
                      switch_data.source_mutual_fund_id, switch_data.target_amount)

(* the checks of the handler and its first create_mf_transaction *)
switch_out_leg(db, ledger_id, switch_data, user_id, amount_nullable) ==
  LET source == switch_data.source_mutual_fund_id
      target == switch_data.target_mutual_fund_id
  IN IF LedgerUser(ledger_id) # user_id THEN Fail(db, "ledger_not_found")
     ELSE IF source \notin DOMAIN db.funds \/ db.funds[source].ledger_id # ledger_id
     THEN Fail(db, "source_not_found")
     ELSE IF target \notin DOMAIN db.funds \/ db.funds[target].ledger_id # ledger_id
     THEN Fail(db, "target_not_found")
     ELSE IF source = target THEN Fail(db, "same_fund")
     ELSE create_mf_transaction(db, ledger_id, SwitchOutData(switch_data), amount_nullable)

SwitchRequest(caller, switch_data, amount_nullable, start) ==
  [caller |-> caller, switch_data |-> switch_data, amount_nullable |-> amount_nullable,
   start |-> start, out |-> None, in |-> None]

LegsOut ==
  /\ ~SwitchInProgress
  /\ nextMfId < SwitchLimits.mf
  /\ \E caller \in SwitchCallers, source \in SwitchFunds, target \in SwitchFunds,
        amount_nullable \in DeployedSchemas :
       LET switch_data == MfSwitchCreate(source, target, 1, MaxAmount, 1, MaxAmount)
           r == switch_out_leg(DB, caller[2], switch_data, caller[1], amount_nullable)
       IN DoUpTo(SwitchLimits, "switch_out_stored", r,
                 [SwitchRequest(caller, switch_data, amount_nullable, DB) EXCEPT !.out = r.id])

LegsIn ==
  /\ last.ok
  /\ last.op = "switch_out_stored"
  /\ LET q == last.info
         r == create_mf_transaction(DB, q.caller[2], SwitchInData(q.switch_data),
                                    q.amount_nullable)
     IN DoUpTo(SwitchLimits, "switch_in_stored", r, [q EXCEPT !.in = r.id])

LegsLinkOut ==
  /\ last.ok
  /\ last.op = "switch_in_stored"
  /\ DoUpTo(SwitchLimits, "switch_out_linked",
            update_mf_transaction_linked_id(DB, last.info.out, last.info.in), last.info)

LegsLinkIn ==
  /\ last.ok
  /\ last.op = "switch_out_linked"
  /\ DoUpTo(SwitchLimits, "mf_switch",
            [update_mf_transaction_linked_id(DB, last.info.in, last.info.out)
               EXCEPT !.id = last.info.out],
            last.info)

LegsBuy == ~SwitchInProgress /\ SwitchBuy
LegsDelete == ~SwitchInProgress /\ SwitchDelete

NextLegs ==
  \/ LegsBuy
  \/ LegsOut
  \/ LegsIn
  \/ LegsLinkOut
  \/ LegsLinkIn
  \/ LegsDelete

SpecLegs == Init /\ [][NextLegs]_vars

(* The four steps together are the handler: what the last step leaves is   *)
(* what switch_mutual_fund_units makes of the state the first step found   *)
LegsAreTheHandler ==
  [][(last'.op = "mf_switch" /\ last'.ok /\ last.op = "switch_out_linked")
       => LET q == last.info
              r == switch_mutual_fund_units(q.start, q.caller[2], q.switch_data,
                                            q.caller[1], q.amount_nullable)
          IN r.err = "" /\ r.id = last'.id /\ r.db = DB']_vars

(* The handler has stored the switch_out leg and not yet the switch_in leg *)
C18_LoneSwitchOut ==
  /\ last.op = "switch_out_stored"
  /\ last.ok
  /\ last.info.out \in DOMAIN mfTransactions
  /\ mfTransactions[last.info.out].transaction_type = "switch_out"
  /\ mfTransactions[last.info.out].linked_transaction_id = None

---------------------------------------------------------------------------
(* The cost basis a switch moves from the source fund to the target fund *)

BasisLimits == Limits(MaxSpend, MaxTradeTxId, MaxSwitchRows, 0)
BasisCallers == {<<1, 1>>}
BasisFunds == {1, 2}
BasisUnits == {1, 2}
BasisAmounts == 1..MaxAmount

BasisBuy ==
  BuyMutualFund(BasisCallers, {1}, {Cash}, BasisUnits, BasisAmounts, NoCharges, BasisLimits)
BasisSwitch ==
  SwitchMutualFundUnits(BasisCallers, BasisFunds, BasisUnits, BasisAmounts,
                        DeployedSchemas, BasisLimits)

NextBasis ==
  \/ BasisBuy
  \/ BasisSwitch

SpecBasis == Init /\ [][NextBasis]_vars

(* This request is a completed switch *)
Switched == last'.op = "mf_switch" /\ last'.ok

(* The cost, in 1/100 cent, of the units the switch takes out of the       *)
(* source fund: source units x source average cost                         *)
BasisRemoved == last'.info.units * funds[last'.info.fund].average_cost_per_unit

SwitchInRow == mfTransactions'[mfTransactions'[last'.id].linked_transaction_id]

HeldAtCost(fs, f) == fs[f].total_units * fs[f].average_cost_per_unit

C19_SwitchInTakesMarketValue ==
  [][Switched
       => LET target == last'.info.target
              out == mfTransactions'[last'.id]
          IN /\ out.cost_basis_of_units_sold = RoundDiv(BasisRemoved, Fine)
             /\ SwitchInRow.cost_basis_of_units_sold = SwitchInRow.total_amount
             /\ funds'[target].total_invested_cash - funds[target].total_invested_cash
                  = Fine * SwitchInRow.total_amount]_vars

(* A completed switch whose legs record different cost bases *)
C19_BasisNotConserved ==
  /\ last.op = "mf_switch"
  /\ last.ok
  /\ mfTransactions[last.id].transaction_type = "switch_out"
  /\ mfTransactions[mfTransactions[last.id].linked_transaction_id].cost_basis_of_units_sold
       # mfTransactions[last.id].cost_basis_of_units_sold

---------------------------------------------------------------------------
(* The return calculator: utils/xirr_calculator.calculate_xirr *)

MaxFlows == 2
MaxDay == 1

(* Rates in 1/100000; the percentage returned in 1/100 percent *)
RateUnit == 100000
Guess == RateUnit \div 10

XirrTypes == {"buy", "sell", "switch_out", "switch_in"}
XirrAmounts == {1, MaxAmount}
XirrValues == {0, MaxAmount}

XirrTransaction(d, t, a) ==
  [transaction_date |-> d, transaction_type |-> t, amount_excluding_charges |-> a]

XirrTransactions == {XirrTransaction(d, t, a) : d \in 0..MaxDay, t \in XirrTypes, a \in XirrAmounts}

XirrHistories == UNION {[1..n -> XirrTransactions] : n \in 0..MaxFlows}

(* What scipy.optimize.newton did: it returned a root, or it raised        *)
Converged(root) == [raised |-> "", root |-> root]
Raised(exception) == [raised |-> exception, root |-> 0]

(* The roots and the exceptions the iteration can end with when the flows  *)
(* are spread over more than one day: failure to converge and a zero       *)
(* derivative are RuntimeError; 1 + rate = 0 divides by zero; a rate below *)
(* -1 makes the present value complex, and round() of it a TypeError       *)
Roots == {-RateUnit \div 2 - 4, 0, Guess + 4}
Exceptions == {"RuntimeError", "ZeroDivisionError", "OverflowError", "TypeError"}

CashFlow(tx) ==
  IF tx.transaction_type \in {"buy", "switch_in"}
  THEN -tx.amount_excluding_charges
  ELSE tx.amount_excluding_charges

(* the cash flows and the dates calculate_xirr hands to the root finder *)
cash_flows(txs, current_value) ==
  [i \in DOMAIN txs |-> CashFlow(txs[i])] \o <<current_value>>

dates(txs, current_date) ==
  [i \in DOMAIN txs |-> txs[i].transaction_date] \o <<current_date>>

(* newton(npv, 0.1, fprime): with every flow on one day the present value  *)
(* is the sum of the flows at every rate and the derivative is zero, so    *)
(* the guess is returned when the sum is zero and RuntimeError is raised   *)
(* otherwise; in every other case the outcome is one of the above          *)
newton(flows, days) ==
  IF \A i \in DOMAIN days : days[i] = days[1]
  THEN IF SeqSum(flows) = 0 THEN {Converged(Guess)} ELSE {Raised("RuntimeError")}
  ELSE {Converged(root) : root \in Roots} \cup {Raised(e) : e \in Exceptions}

Returned(value) == [err |-> "", value |-> value]
Propagated(exception) == [err |-> exception, value |-> 0]

(* calculate_xirr without its try: what the root finder raises goes to the *)
(* caller                                                                  *)
calculate_xirr_unguarded(txs, current_value, current_date, outcome) ==
  IF txs = <<>> THEN Returned(0)
  ELSE IF outcome.raised # "" THEN Propagated(outcome.raised)
  ELSE Returned(RoundDiv(outcome.root, 10))

(* calculate_xirr, given what the root finder did                          *)
calculate_xirr(txs, current_value, current_date, outcome) ==
  IF txs = <<>> THEN Returned(0)
  ELSE IF outcome.raised # "" THEN Returned(0)
  ELSE Returned(RoundDiv(outcome.root, 10))

(* The inputs of one call *)
XirrInput(txs, current_value, current_date) ==
  [transactions |-> txs, current_value |-> current_value,
   current_date |-> current_date]

InitXirr ==
  /\ accounts = InitialDB.accounts
  /\ transactions = <<>>
  /\ tags = {}
  /\ nextTxId = 1
  /\ funds = InitialDB.funds
  /\ mfTransactions = <<>>
  /\ nextMfId = 1
  /\ assets = InitialDB.assets
  /\ assetTransactions = <<>>
  /\ nextAssetTxId = 1
  /\ sessions = NoSessions
  /\ \E history \in XirrHistories, current_value \in XirrValues :
       last = [op |-> "xirr_input", ok |-> TRUE, err |-> "", id |-> None,
               info |-> XirrInput(history, current_value, MaxDay)]

CalculateXirr ==
  /\ last.op = "xirr_input"
  /\ LET q == last.info
     IN \E outcome \in newton(cash_flows(q.transactions, q.current_value),
                              dates(q.transactions, q.current_date)) :
          LET r == calculate_xirr(q.transactions, q.current_value, q.current_date, outcome)
          IN last' = [op |-> "calculate_xirr", ok |-> (r.err = ""), err |-> r.err,
                      id |-> None,
                      info |-> [input |-> q, newton |-> outcome, value |-> r.value]]
  /\ DatabaseUnchanged
  /\ UNCHANGED sessions

NextXirr == CalculateXirr

SpecXirr == InitXirr /\ [][NextXirr]_vars

(* C20: calculateXirr never propagates an error and changes nothing: for   *)
(* an empty transaction list, and whenever the root finding fails to       *)
(* converge or raises, it returns 0.0.                                     *)
C20_XirrNeverPropagates ==
  [][last'.op = "calculate_xirr"
       => /\ last'.ok
          /\ DatabaseUnchanged
          /\ (last'.info.input.transactions = <<>> => last'.info.value = 0)
          /\ (last'.info.newton.raised # "" => last'.info.value = 0)]_vars

(* A history spread over two days on which the root finder did not         *)
(* converge, answered with 0.0                                             *)
C20_NotConvergedGivesZero ==
  /\ last.op = "calculate_xirr"
  /\ last.ok
  /\ last.info.input.transactions # <<>>
  /\ \E i \in DOMAIN last.info.input.transactions :
        last.info.input.transactions[i].transaction_date # last.info.input.current_date
  /\ last.info.newton.raised = "RuntimeError"
  /\ last.info.value = 0

---------------------------------------------------------------------------
(* Two requests at once: create_transaction statement by statement.  Each  *)
(* request has its own session.  What the session factory sets             *)
(* (expire_on_commit) and the isolation level of the connection are one    *)
(* choice per deployment.                                                  *)

Deployments == [expire_on_commit : BOOLEAN, repeatable_read : BOOLEAN]
RaceAccounts == {Cash, Card}
RaceAmounts == 1..MaxAmount
RaceTypes == {"income", "expense"}

InProgress(s) == sessions[s].pc # "idle"

(* the balance the UPDATE writes with the increment done by the database   *)
(* on the row as it is                                                     *)
balance_after_increment(loaded, current, effect) == current + effect

(* the balance the UPDATE writes: account.balance += amount is computed in *)
(* the session from the value it loaded, and the computed value is sent    *)
balance_after(loaded, current, effect) == loaded + effect

(* lines 83-125: the account is loaded and checked, the row is inserted    *)
(* and committed                                                           *)
RaceStart(s) ==
  /\ ~InProgress(s)
  /\ nextTxId <= MaxTxId
  /\ \E account_id \in RaceAccounts, type \in RaceTypes, amount \in RaceAmounts,
        deployment \in Deployments :
       LET t == TransactionCreate(account_id, type,
                                  IF type = "income" THEN amount ELSE 0,
                                  IF type = "expense" THEN amount ELSE 0,
                                  FALSE, <<>>, <<>>, FALSE, None, "", FALSE)
           account == accounts[account_id]
       IN /\ \A o \in Sessions : InProgress(o) => sessions[o].deployment = deployment
          /\ ~account.is_group
          /\ transactions' = Put(transactions, nextTxId, TransactionRow(t))
          /\ nextTxId' = nextTxId + 1
          /\ sessions' = [sessions EXCEPT ![s] =
                            [pc |-> "row_committed", deployment |-> deployment,
                             account_id |-> account_id, id |-> nextTxId,
                             loaded |-> account.balance,
                             effect |-> CreateEffect(account.type, type, t.credit, t.debit),
                             conflict |-> FALSE]]
  /\ UNCHANGED <<accounts, tags, funds, mfTransactions, nextMfId, assets,
                 assetTransactions, nextAssetTxId, last>>

(* lines 126-140: the next transaction of the session begins; the account, *)
(* expired by the commit, is loaded again on its first use, or is still    *)
(* what was loaded at line 83 when the session does not expire             *)
RaceLoad(s) ==
  /\ sessions[s].pc = "row_committed"
  /\ sessions' = [sessions EXCEPT
                    ![s].pc = "loaded",
                    ![s].loaded = IF sessions[s].deployment.expire_on_commit
                                  THEN accounts[sessions[s].account_id].balance
                                  ELSE @]
  /\ DatabaseUnchanged
  /\ UNCHANGED last

(* line 142: the commit sends the UPDATE.  Under repeatable read it fails  *)
(* when another transaction changed the row since this one began.          *)
RaceFinish(s) ==
  /\ sessions[s].pc = "loaded"
  /\ LET q == sessions[s]
         failed == q.deployment.repeatable_read /\ q.conflict
         db == IF failed THEN DB
               ELSE SetBalance(DB, q.account_id,
                               balance_after(q.loaded, accounts[q.account_id].balance,
                                             q.effect))
         r == IF failed THEN Fail(db, "serialization_failure") ELSE Ok(db, q.id)
     IN /\ Bounded(db)
        /\ Commit(r)
        /\ last' = Last("create_transaction", r,
                        [session |-> s, account_id |-> q.account_id,
                         before |-> accounts[q.account_id].balance])
        /\ sessions' = [o \in Sessions |->
                          IF o = s THEN Idle
                          ELSE IF ~failed /\ sessions[o].pc = "loaded"
                                  /\ sessions[o].account_id = q.account_id
                          THEN [sessions[o] EXCEPT !.conflict = TRUE]
                          ELSE sessions[o]]

Start == \E s \in Sessions : RaceStart(s)
Load == \E s \in Sessions : RaceLoad(s)
Finish == \E s \in Sessions : RaceFinish(s)

NextRace ==
  \/ Start
  \/ Load
  \/ Finish

SpecRace == Init /\ [][NextRace]_vars

(* Session s completes its request in this step *)
Finishes(s) == sessions[s].pc = "loaded" /\ sessions'[s].pc = "idle"

(* C21: the read-modify-write of the running total is not atomic: what a   *)
(* completed createTransaction leaves as balance is the value its session  *)
(* loaded plus its own effect, whatever another request has written in     *)
(* between, and its row is stored in any case; so two calls on one account *)
(* can end with both rows and a balance that holds only one of them.       *)
C21_WriteIsLoadedPlusEffect ==
  [][\A s \in Sessions :
       Finishes(s)
         => /\ sessions[s].id \in DOMAIN transactions'
            /\ last'.ok =>
                 accounts'[sessions[s].account_id].balance
                   = sessions[s].loaded + sessions[s].effect]_vars

(* Both requests are complete, their two income rows are on one account,   *)
(* and the balance holds one of them                                       *)
C21_LostUpdate ==
  /\ \A s \in Sessions : ~InProgress(s)
  /\ last.op = "create_transaction"
  /\ last.ok
  /\ DOMAIN transactions = {1, 2}
  /\ transactions[1].account_id = Cash
  /\ transactions[2].account_id = Cash
  /\ transactions[1].credit > 0
  /\ transactions[2].credit > 0
  /\ accounts[Cash].balance = transactions[2].credit

---------------------------------------------------------------------------
(* A patch that leaves a transaction without exactly one positive side *)

(* This request is an update by the owner of a stored transaction whose    *)
(* patched credit and debit are both non-zero, or both zero                *)
PatchedToInvalid ==
  /\ last'.op = "update_transaction"
  /\ last'.info.transaction_id \in DOMAIN transactions
  /\ LET old == transactions[last'.info.transaction_id]
         credit == Patched(old.credit, last'.info.patch.credit)
         debit == Patched(old.debit, last'.info.patch.debit)
     IN (credit # 0 /\ debit # 0) \/ (credit = 0 /\ debit = 0)

(* C22: updateTransaction with a patch that leaves the transaction with    *)
(* both credit and debit non-zero, or both zero, fails, and after the      *)
(* failure the stored fields of the transaction and the balance and        *)
(* net_balance of the account are what they were before the call.          *)
C22_InvalidPatchChangesNothing ==
  [][PatchedToInvalid
       => /\ ~last'.ok
          /\ transactions' = transactions
          /\ Balances(accounts') = Balances(accounts)]_vars

(* What does hold of C22: the request fails *)
C22_InvalidPatchRejected ==
  [][PatchedToInvalid => ~last'.ok]_vars

(* A rejected update after which the row carries both a credit and a debit *)
(* and its account no longer holds the effect the row had                  *)
C22_ReversalLeftApplied ==
  /\ last.op = "update_transaction"
  /\ last.err = "invalid_transaction"
  /\ transactions[last.info.transaction_id].credit > 0
  /\ transactions[last.info.transaction_id].debit > 0
  /\ DOMAIN transactions = {last.info.transaction_id}
  /\ accounts[last.info.account_id].balance = 0

---------------------------------------------------------------------------
(* Realized gain of a fund against the rows that realized it *)

RECURSIVE SumOver(_, _, _)
SumOver(rows, ids, column) ==
  IF ids = {} THEN 0
  ELSE LET id == CHOOSE x \in ids : TRUE
       IN rows[id][column] + SumOver(rows, ids \ {id}, column)

RowsOfFund(rows, fund, types) ==
  {id \in DOMAIN rows : rows[id].mutual_fund_id = fund /\ rows[id].transaction_type \in types}

(* C23: in every reachable state the total_realized_gain of a fund is the  *)
(* sum of realized_gain over its remaining sell and switch_out             *)
(* MfTransactions.                                                         *)
C23_RealizedGainIsSumOfRows ==
  \A f \in DOMAIN funds :
     funds[f].total_realized_gain
       = Fine * SumOver(mfTransactions, RowsOfFund(mfTransactions, f, {"sell", "switch_out"}),
                        "realized_gain")

(* A fund without any sell or switch_out row left that still carries a     *)
(* realized gain                                                           *)
C23_GainWithoutRows ==
  \E f \in DOMAIN funds :
     /\ RowsOfFund(mfTransactions, f, {"sell", "switch_out"}) = {}
     /\ funds[f].total_realized_gain # 0
     /\ last.op = "mf_delete"
     /\ last.ok

---------------------------------------------------------------------------
(* The value of a position against its quantity and its latest price *)

(* C24: in every reachable state each mutual fund has                      *)
(* current_value = total_units x latest_nav and each physical asset has    *)
(* current_value = total_quantity x latest_price_per_unit.                 *)
C24_ValueIsQuantityTimesPrice ==
  /\ \A f \in DOMAIN funds :
        funds[f].current_value = funds[f].total_units * funds[f].latest_nav
  /\ \A a \in DOMAIN assets :
        assets[a].current_value = assets[a].total_quantity * assets[a].latest_price_per_unit

(* After a completed purchase the fund is valued at what was paid, which   *)
(* is not units x the stored NAV                                           *)
C24_ValuedAtAmountPaid ==
  /\ last.op = "mf_buy"
  /\ last.ok
  /\ funds[last.info.fund].total_units = last.info.units
  /\ funds[last.info.fund].current_value = mfTransactions[last.id].amount_excluding_charges
  /\ funds[last.info.fund].current_value
       # funds[last.info.fund].total_units * funds[last.info.fund].latest_nav

---------------------------------------------------------------------------
(* Deleting an asset transaction whatever the remaining history is *)

(* The quantity the remaining rows fold to: a sell of more than was        *)
(* accumulated leaves nothing, and the rows after it count                 *)
RECURSIVE FoldedQuantity(_, _, _)
FoldedQuantity(rows, order, held) ==
  IF order = <<>> THEN held
  ELSE LET tx == rows[Head(order)]
       IN FoldedQuantity(rows, Tail(order),
            IF tx.transaction_type = "buy" THEN held + tx.quantity
            ELSE IF held >= tx.quantity THEN held - tx.quantity
            ELSE 0)

(* C25: deleteAssetTransaction does not fail because of the remaining      *)
(* history: a sell whose quantity exceeds what was accumulated sets the    *)
(* running quantity to zero, folding continues, and the delete commits,    *)
(* removing the one row and leaving the others, that sell included.        *)
C25_DeleteNeverFailsOnHistory ==
  [][last'.op = "asset_delete"
       => /\ last'.ok
          /\ assetTransactions' = Drop(assetTransactions, {last'.info.deleted})
          /\ assets'[last'.info.asset].total_quantity
               = FoldedQuantity(assetTransactions',
                                RemainingTransactions(DB', last'.info.asset), 0)]_vars

(* After a deletion the history of the asset opens with a sell and ends    *)
(* with a buy, and the asset holds what that buy brought                   *)
C25_SellOutlivesItsBuy ==
  /\ last.op = "asset_delete"
  /\ last.ok
  /\ LET order == RemainingTransactions(DB, last.info.asset)
     IN /\ Len(order) >= 2
        /\ assetTransactions[order[1]].transaction_type = "sell"
        /\ assetTransactions[order[Len(order)]].transaction_type = "buy"
        /\ assets[last.info.asset].total_quantity
             = assetTransactions[order[Len(order)]].quantity

---------------------------------------------------------------------------
(* Position transactions and their financial transactions *)

(* The position transactions that name Transaction id as their financial   *)
(* transaction or as their charge                                          *)
ReferencesTo(id) ==
  Cardinality({x \in DOMAIN assetTransactions :
                 assetTransactions[x].financial_transaction_id = id})
  + Cardinality({x \in DOMAIN mfTransactions :
                   \/ mfTransactions[x].financial_transaction_id = id
                   \/ mfTransactions[x].linked_charge_transaction_id = id})

(* C26: in every reachable state every AssetTransaction and every buy or   *)
(* sell MfTransaction references an existing financial Transaction flagged *)
(* is_asset_transaction or is_mf_transaction, and every Transaction so     *)
(* flagged is referenced by exactly one position transaction.              *)
C26_PositionsMatchTransactions ==
  /\ \A x \in DOMAIN assetTransactions :
        /\ assetTransactions[x].financial_transaction_id \in DOMAIN transactions
        /\ transactions[assetTransactions[x].financial_transaction_id].is_asset_transaction
  /\ \A x \in DOMAIN mfTransactions :
        mfTransactions[x].transaction_type \in {"buy", "sell"}
          => /\ mfTransactions[x].financial_transaction_id \in DOMAIN transactions
             /\ transactions[mfTransactions[x].financial_transaction_id].is_mf_transaction
  /\ \A id \in DOMAIN transactions :
        (transactions[id].is_asset_transaction \/ transactions[id].is_mf_transaction)
          => ReferencesTo(id) = 1

(* A rejected redemption left a flagged Transaction that nothing refers to *)
C26_FlaggedRowWithoutPosition ==
  /\ last.op = "mf_sell"
  /\ ~last.ok
  /\ \E id \in DOMAIN transactions :
        /\ transactions[id].is_mf_transaction
        /\ transactions[id].credit > 0
        /\ ReferencesTo(id) = 0

---------------------------------------------------------------------------
(* Units of a fund against the units of its rows *)

UnitsOfRows(f) ==
  SumOver(mfTransactions, RowsOfFund(mfTransactions, f, {"buy", "switch_in"}), "units")
  - SumOver(mfTransactions, RowsOfFund(mfTransactions, f, {"sell", "switch_out"}), "units")

(* C27: in every reachable state the total_units of each mutual fund is    *)
(* non-negative and is the units of its remaining buy and switch_in        *)
(* MfTransactions minus the units of its remaining sell and switch_out     *)
(* MfTransactions.                                                         *)
C27_UnitsAreSumOfRows ==
  \A f \in DOMAIN funds :
     /\ funds[f].total_units >= 0
     /\ funds[f].total_units = UnitsOfRows(f)

(* What does hold of C27: total_units is never negative *)
C27_UnitsNotNegative ==
  \A f \in DOMAIN funds : funds[f].total_units >= 0

(* A rejected switch took units out of the source fund and stored no row *)
C27_UnitsGoneWithoutRow ==
  /\ last.op = "mf_switch"
  /\ ~last.ok
  /\ funds[last.info.fund].total_units = last.info.before[last.info.fund].total_units
                                           - last.info.units
  /\ funds[last.info.fund].total_units # UnitsOfRows(last.info.fund)

---------------------------------------------------------------------------
(* The two cost-basis records of a fund *)

(* total_units x average_cost_per_unit, in the unit of total_invested_cash *)
CostOfUnitsHeld(f) == funds[f].total_units * funds[f].average_cost_per_unit

(* C28: in every reachable state total_invested_cash of each fund equals   *)
(* total_units x average_cost_per_unit, and is therefore non-negative.     *)
C28_CostBasisRecordsAgree ==
  \A f \in DOMAIN funds :
     /\ funds[f].total_invested_cash = CostOfUnitsHeld(f)
     /\ funds[f].total_invested_cash >= 0

(* The invested cash of a fund is below zero *)
C28_InvestedCashNegative ==
  \E f \in DOMAIN funds : funds[f].total_invested_cash < 0

(* A successful delete leaves a fund without units and with at least one   *)
(* whole cent of invested cash, more than any rounding of the average      *)
C28_CashLeftAfterDelete ==
  /\ last.op = "mf_delete"
  /\ last.ok
  /\ \E f \in DOMAIN funds :
        /\ funds[f].total_units = 0
        /\ funds[f].average_cost_per_unit = 0
        /\ funds[f].total_invested_cash >= Fine

---------------------------------------------------------------------------
(* Two users, each on the accounts of their own ledger and of the other's *)

OwnerAccounts == {Cash, OtherUserCash}
OwnerAmounts == 1..MaxAmount

OwnerPatches ==
  {NoPatch}
  \cup {[NoPatch EXCEPT !.credit = Some(x)] : x \in OwnerAmounts}
  \cup {[NoPatch EXCEPT !.account_id = Some(a)] : a \in OwnerAccounts}

(* The user of the request is resolved by the endpoint and not passed on *)
OwnerIncome ==
  /\ nextTxId <= MaxTxId
  /\ \E caller \in LedgerCallers, account_id \in OwnerAccounts, credit \in OwnerAmounts :
    LET t == TransactionCreate(account_id, "income", credit, 0, FALSE, <<>>,
                               <<>>, FALSE, None, "", FALSE)
    IN Do("create_transaction", add_income_transaction(DB, t),
          [user_id |-> caller[1], ledger_id |-> caller[2], account_id |-> account_id])

OwnerExpense ==
  /\ nextTxId <= MaxTxId
  /\ \E caller \in LedgerCallers, account_id \in OwnerAccounts, debit \in OwnerAmounts :
    LET t == TransactionCreate(account_id, "expense", 0, debit, FALSE, <<>>,
                               <<>>, FALSE, None, "", FALSE)
    IN Do("create_transaction", add_expense_transaction(DB, t),
          [user_id |-> caller[1], ledger_id |-> caller[2], account_id |-> account_id])

OwnerUpdate ==
  \E caller \in Callers, transaction_id \in DOMAIN transactions, patch \in OwnerPatches :
    Do("update_transaction",
       update_transaction_endpoint(DB, caller[2], transaction_id, patch, caller[1]),
       [user_id |-> caller[1], ledger_id |-> caller[2],
        account_id |-> transactions[transaction_id].account_id,
        transaction_id |-> transaction_id, patch |-> patch])

OwnerDelete == DeleteTransaction(Callers)

NextOwner ==
  \/ OwnerIncome
  \/ OwnerExpense
  \/ OwnerUpdate
  \/ OwnerDelete

SpecOwner == Init /\ [][NextOwner]_vars

(* The accounts in ledgers that user_id does not own *)
AccountsOfOthers(user_id) ==
  {a \in DOMAIN accounts : LedgerUser(accounts[a].ledger_id) # user_id}

(* The rows of a transactions table on one account, with their keys *)
RowsOn(rows, a) ==
  {<<id, rows[id]>> : id \in {i \in DOMAIN rows : rows[i].account_id = a}}

(* C29: a request of user U changes the balance and the transactions only  *)
(* of accounts in ledgers owned by U: an income or expense on another      *)
(* user's account and an update that moves a row to another user's account *)
(* fail and leave that account unchanged; a delete or update of another    *)
(* user's transaction fails and changes nothing.                           *)
C29_OnlyOwnAccountsChange ==
  [][/\ \A a \in AccountsOfOthers(last'.info.user_id) :
          /\ accounts'[a] = accounts[a]
          /\ RowsOn(transactions', a) = RowsOn(transactions, a)
     /\ (/\ last'.op = "create_transaction"
         /\ last'.info.account_id \in AccountsOfOthers(last'.info.user_id))
          => ~last'.ok
     /\ (/\ last'.op = "update_transaction"
         /\ last'.info.patch.account_id # Absent
         /\ last'.info.patch.account_id[1] \in AccountsOfOthers(last'.info.user_id))
          => ~last'.ok
    ]_vars

(* What does hold of C29: a delete or an update of a transaction on an     *)
(* account of another user fails and changes no account and no transaction *)
C29_OthersTransactionUntouched ==
  [][(/\ last'.op \in {"update_transaction", "delete_transaction"}
      /\ \E id \in DOMAIN transactions :
            /\ id = last'.info.transaction_id
            /\ transactions[id].account_id \in AccountsOfOthers(last'.info.user_id))
       => /\ ~last'.ok
          /\ accounts' = accounts
          /\ transactions' = transactions
    ]_vars

(* An income posted by one user is stored on an account of the other *)
C29_IncomeOnOthersAccount ==
  /\ last.op = "create_transaction"
  /\ last.ok
  /\ last.info.account_id \in AccountsOfOthers(last.info.user_id)
  /\ transactions[last.id].account_id = last.info.account_id
  /\ accounts[last.info.account_id].balance # 0

(* An update by one user has moved a row of theirs to an account of the    *)
(* other                                                                   *)
C29_RowMovedToOthersAccount ==
  /\ last.op = "update_transaction"
  /\ last.ok
  /\ last.info.account_id \notin AccountsOfOthers(last.info.user_id)
  /\ transactions[last.info.transaction_id].account_id
       \in AccountsOfOthers(last.info.user_id)

---------------------------------------------------------------------------
(* Physical assets paid from and into an asset and a liability account *)

SettleAccounts == {Savings, Card}
SettleDates == {1}

SettleBuy ==
  /\ nextTxId <= AssetLimits.tx
  /\ nextAssetTxId <= AssetLimits.asset
  /\ \E caller \in AssetCallers, account_id \in SettleAccounts,
        quantity \in AssetQuantities, price_per_unit \in AssetPrices,
        transaction_date \in SettleDates :
       DoUpTo(AssetLimits, "asset_buy",
              buy_asset(DB, caller[2],
                        AssetTransactionCreate(1, "buy", quantity, price_per_unit,
                                               account_id, transaction_date),
                        caller[1]),
              [asset |-> 1, account_id |-> account_id, quantity |-> quantity,
               total_amount |-> quantity * price_per_unit,
               before |-> accounts[account_id]])

SettleSell ==
  /\ nextTxId <= AssetLimits.tx
  /\ nextAssetTxId <= AssetLimits.asset
  /\ \E caller \in AssetCallers, account_id \in SettleAccounts,
        quantity \in AssetQuantities, price_per_unit \in AssetPrices,
        transaction_date \in SettleDates :
       DoUpTo(AssetLimits, "asset_sell",
              sell_asset(DB, caller[2],
                         AssetTransactionCreate(1, "sell", quantity, price_per_unit,
                                                account_id, transaction_date),
                         caller[1]),
              [asset |-> 1, account_id |-> account_id, quantity |-> quantity,
               total_amount |-> quantity * price_per_unit,
               before |-> accounts[account_id]])

SettleDelete == DeleteAssetTransaction(AssetCallers, AssetLimits)

NextSettle ==
  \/ SettleBuy
  \/ SettleSell
  \/ SettleDelete

SpecSettle == Init /\ [][NextSettle]_vars

(* A successful delete of the asset transaction the previous request made *)
DeletesWhatWasJustMade ==
  /\ last.op \in {"asset_buy", "asset_sell"}
  /\ last.ok
  /\ last'.op = "asset_delete"
  /\ last'.ok
  /\ last'.info.deleted = last.id

(* C30: for a physical-asset buy or sell against a leaf account of either  *)
(* type, createAssetTransaction followed by deleteAssetTransaction         *)
(* restores the balance and the net_balance of the account to their values *)
(* before the create.                                                      *)
C30_CreateThenDeleteRestoresAccount ==
  [][DeletesWhatWasJustMade
       => /\ accounts'[last.info.account_id].balance = last.info.before.balance
          /\ accounts'[last.info.account_id].net_balance = last.info.before.net_balance
    ]_vars

(* What does hold of C30: the same for an account of type asset *)
C30_CreateThenDeleteRestoresAssetAccount ==
  [][(DeletesWhatWasJustMade /\ last.info.before.type = "asset")
       => /\ accounts'[last.info.account_id].balance = last.info.before.balance
          /\ accounts'[last.info.account_id].net_balance = last.info.before.net_balance
    ]_vars

(* On a liability account the delete applies the effect of the create a    *)
(* second time: the balance ends at twice the amount from where it started *)
C30_CreateThenDeleteDoublesOnLiability ==
  [][(DeletesWhatWasJustMade /\ last.info.before.type = "liability")
       => accounts'[last.info.account_id].balance
            = last.info.before.balance
              + 2 * (IF last.op = "asset_buy" THEN last.info.total_amount
                     ELSE -last.info.total_amount)
    ]_vars

(* A buy on the liability account has been made and deleted, and the       *)
(* account has no row while its balance is not zero                        *)
C30_LiabilityNotRestored ==
  /\ last.op = "asset_delete"
  /\ last.ok
  /\ assetTransactions = <<>>
  /\ transactions = <<>>
  /\ accounts[Card].balance # 0
  /\ accounts[Savings].balance = 0

============================================================================
